---- MODULE Spec2Model ----
(***************************************************************************)
(* A model of addy's access-reconciliation code: SudoManager               *)
(* (src/addy/sudo_manager.py), UserManager (src/addy/user_manager.py) and  *)
(* the install / remove commands (src/addy/cli.py).                        *)
(*                                                                         *)
(* The host is the sudoers directory (a map from file names to files), the *)
(* account database and the authorized_keys files.  Every call is run by a *)
(* process, one system call per step, so that the intermediate states of   *)
(* an operation are states of the model.                                   *)
(***************************************************************************)
EXTENDS Integers, Sequences, FiniteSets, TLC

(***************************************************************************)
(* Names.  A file name is the sequence of its dot-separated components:    *)
(* <<"a","b">> is "a.b".                                                   *)
(***************************************************************************)
Usernames == { <<"a">>, <<"a", "b">>, <<"a", "tmp">> }

Procs == {1, 2}

\* pathlib's PurePath.with_suffix(".tmp"): the last component is the suffix
\* when the name has more than one component; it is replaced, else appended.
with_suffix_tmp(name) ==
    IF Len(name) > 1
        THEN SubSeq(name, 1, Len(name) - 1) \o <<"tmp">>
        ELSE name \o <<"tmp">>

\* f"{username}.tmp"
fstring_tmp(name) == name \o <<"tmp">>

\* sudoers_file = self.SUDOERS_DIR / username
SudoersFile(u) == u

\* temp_file = sudoers_file.with_suffix(".tmp")   (grant_sudo, try block)
TempFile(u) == with_suffix_tmp(SudoersFile(u))

\* temp_file = self.SUDOERS_DIR / f"{username}.tmp"   (grant_sudo, handler)
HandlerTempFile(u) == fstring_tmp(u)

Paths == Usernames \cup { TempFile(u) : u \in Usernames }
                   \cup { HandlerTempFile(u) : u \in Usernames }

(***************************************************************************)
(* Files.  kind is what the file holds: nothing yet ("empty": opened for   *)
(* writing, nothing flushed), the canonical rule of `user` ("rule"), or    *)
(* anything else ("foreign": hand-edited or third-party, or a rule with   *)
(* the tail of a longer rule after it; `user` is then the user of the     *)
(* longer rule, whose length the file has).  `checked` is a               *)
(* history bit: the syntax check passed this content (or was skipped for   *)
(* want of the checker) since it was last written.                         *)
(***************************************************************************)
NoUser == << >>
NoFile == [kind |-> "absent", user |-> NoUser, mode |-> "none", checked |-> FALSE]
EmptyFile(mode) == [kind |-> "empty", user |-> NoUser, mode |-> mode, checked |-> FALSE]
RuleFile(u, mode, chk) == [kind |-> "rule", user |-> u, mode |-> mode, checked |-> chk]
ForeignFile == [kind |-> "foreign", user |-> NoUser, mode |-> "0440", checked |-> FALSE]

Exists(files, path) == files[path].kind # "absent"

\* sudo_rule = f"{username} ALL=(ALL) NOPASSWD:ALL\n"
sudo_rule(u) == [kind |-> "rule", user |-> u]

\* len() of a name component and of a name, its components joined by "."
CompLen(c) == IF c = "" THEN 0 ELSE IF c = "tmp" THEN 3 ELSE 1

RECURSIVE NameLen(_)
NameLen(name) ==
    IF Len(name) = 1 THEN CompLen(Head(name))
    ELSE CompLen(Head(name)) + 1 + NameLen(Tail(name))

\* len(sudo_rule): the name and " ALL=(ALL) NOPASSWD:ALL\n"
RuleLen(u) == NameLen(u) + 24

\* What a file holds after f.write(sudo_rule) on a descriptor opened with
\* "w": the bytes go to offset 0 and nothing is truncated at the write, so
\* the tail of a longer text written in between through another descriptor
\* stays after the rule.
Overwritten(file, u) ==
    IF file.kind \in {"rule", "foreign"} /\ file.user # NoUser
       THEN IF RuleLen(file.user) > RuleLen(u)
               THEN {[kind |-> "foreign", user |-> file.user]}
               ELSE {sudo_rule(u)}
    ELSE IF file.kind = "foreign"
       THEN {sudo_rule(u), [kind |-> "foreign", user |-> NoUser]}
    ELSE {sudo_rule(u)}

\* username = file_path.name; expected_rule = f"{username} ALL=(ALL) NOPASSWD:ALL";
\* content == expected_rule: the file's trimmed text is the rule of its name
HoldsOwnRule(files, path) ==
    /\ files[path].kind = "rule"
    /\ files[path].user = path

\* _is_addy_sudoers_file: with open(file_path, "r") as f: content =
\* f.read().strip(), then the comparison, inside try ... except (OSError,
\* PermissionError): return False.  Its outcome is "True", "False", or the
\* exception it lets through: UnicodeDecodeError (a ValueError) for a file
\* ("binary") whose bytes are not text in the locale's encoding.  A path
\* that cannot be opened or read (no file, a directory, no permission)
\* raises an OSError and gives "False".
is_addy_sudoers_file(files, path, readable) ==
    IF ~readable \/ files[path].kind \in {"absent", "dir"} THEN "False"
    ELSE IF files[path].kind = "binary" THEN "UnicodeDecodeError"
    ELSE IF HoldsOwnRule(files, path) THEN "True"
    ELSE "False"

\* Text is a sequence of characters, each a one-character string.
NoText == << >>

\* str.strip(), str.split(): the characters Python counts as whitespace
Whitespace == {" ", "\n", "\t"}

RECURSIVE lstrip(_)
lstrip(t) == IF t # << >> /\ Head(t) \in Whitespace THEN lstrip(Tail(t)) ELSE t

RECURSIVE rstrip(_)
rstrip(t) ==
    IF t # << >> /\ t[Len(t)] \in Whitespace THEN rstrip(SubSeq(t, 1, Len(t) - 1)) ELSE t

\* public_key.strip()
strip(t) == rstrip(lstrip(t))

\* k in t, for strings: k is a contiguous run of characters of t
IsSubstring(k, t) ==
    \E i \in 0..(Len(t) - Len(k)) : SubSeq(t, i + 1, i + Len(k)) = k

\* the position of the first line end of t, or Len(t) + 1
LineEnd(t) ==
    CHOOSE i \in 1..(Len(t) + 1) :
        /\ i = Len(t) + 1 \/ t[i] = "\n"
        /\ \A j \in 1..(i - 1) : t[j] # "\n"

\* the lines of a text file, as sshd reads authorized_keys: each ends at a
\* line end or at the end of the file
RECURSIVE Lines(_)
Lines(t) ==
    IF t = << >> THEN << >>
    ELSE <<SubSeq(t, 1, LineEnd(t) - 1)>> \o Lines(SubSeq(t, LineEnd(t) + 1, Len(t)))

\* The key file of an account: whether ~/.ssh is there (dir), whether
\* ~/.ssh/authorized_keys is there (exists), and the file's text, permission
\* bits and owner.
NoKeys == [dir |-> FALSE, exists |-> FALSE, content |-> NoText, mode |-> "none", owner |-> "none"]

\* An open file descriptor names the file it was opened on for as long as
\* that file has a name; a file renamed keeps its descriptor, a file
\* unlinked or replaced is an orphan.
NoFd == << >>
Orphan == <<"orphan">>

VARIABLES sudoers, accounts, authkeys, proc, hist

vars == <<sudoers, accounts, authkeys, proc, hist>>

IdleProc == [pc |-> "idle", op |-> "none", user |-> NoUser, bound |-> FALSE,
             cu |-> "unset", rs |-> "unset", du |-> "unset",
             kind |-> "none", ru |-> FALSE, da |-> FALSE,
             result |-> "none", fd |-> NoFd, verdict |-> "none",
             key |-> NoText, msg |-> "none",
             todo |-> << >>, sudo_users |-> << >>,
             valid_files |-> << >>, invalid_files |-> << >>, errors |-> << >>,
             verdicts |-> << >>, retry |-> FALSE, package |-> NoText]

\* History of the call in progress: the system calls it made, in order; the
\* sudoers directory as it was when the call was made; whether the host made
\* any system call of it fail; the paths it created, truncated, wrote or
\* renamed a file onto.
NoFiles == [path \in Paths |-> NoFile]
NoKeyFiles == [u \in Usernames |-> NoKeys]
IdleHist == [trace |-> << >>, pre |-> NoFiles, acc |-> { }, keys |-> NoKeyFiles,
             fault |-> FALSE, written |-> { }]

\* "ssh-rsa AAAA": a key line as ssh-keygen writes it, without the comment
Key1 == <<"s", "s", "h", "-", "r", "s", "a", " ", "A", "A", "A", "A">>

\* an account's ~/.ssh without a key file, and with a key file that holds one
\* key and was not written by this tool
SshDirOnly == [NoKeys EXCEPT !.dir = TRUE]
WithKeys == [dir |-> TRUE, exists |-> TRUE, content |-> Key1 \o <<"\n">>,
             mode |-> "0644", owner |-> "root"]

\* The host before the first call: a fresh host, but for one user f whose
\* drop-in may be there already (written by the tool, or by someone else)
\* and whose account may exist, with or without an authorized_keys file.
Init ==
    /\ \E f \in Usernames :
          /\ \E file \in {NoFile, ForeignFile, RuleFile(f, "0440", TRUE)} :
                sudoers = [path \in Paths |-> IF path = SudoersFile(f) THEN file ELSE NoFile]
          /\ accounts \in {{ }, {f}}
          /\ \E keys \in {NoKeys, SshDirOnly, WithKeys} :
                /\ keys.dir => f \in accounts
                /\ authkeys = [u \in Usernames |-> IF u = f THEN keys ELSE NoKeys]
    /\ proc = [p \in Procs |-> IdleProc]
    /\ hist = [p \in Procs |-> IdleHist]

(***************************************************************************)
(* File-system primitives.                                                 *)
(***************************************************************************)
\* descriptors after `path` is unlinked
FdsAfterUnlink(path) ==
    [q \in Procs |-> IF proc[q].fd = path THEN Orphan ELSE proc[q].fd]

\* descriptors after src is renamed onto dst
FdsAfterRename(src, dst) ==
    [q \in Procs |->
        IF src = dst THEN proc[q].fd
        ELSE IF proc[q].fd = src THEN dst
        ELSE IF proc[q].fd = dst THEN Orphan
        ELSE proc[q].fd]

Log(p, ev) == [hist EXCEPT ![p].trace = Append(@, ev)]
LogWrite(p, ev, path) ==
    [hist EXCEPT ![p].trace = Append(@, ev),
                 ![p].written = IF path \in Paths THEN @ \cup {path} ELSE @]
LogFault(p, ev) == [hist EXCEPT ![p].trace = Append(@, ev), ![p].fault = TRUE]

\* the history of a call just made: the host as the call finds it
CallHist == [IdleHist EXCEPT !.pre = sudoers, !.acc = accounts, !.keys = authkeys]

Finish(p, res) == [proc[p] EXCEPT !.pc = "done", !.result = res, !.fd = NoFd]
Goto(p, label) == [proc[p] EXCEPT !.pc = label]

(***************************************************************************)
(* Signatures.  Python raises TypeError for an argument a function does    *)
(* not declare, before the body runs.                                      *)
(***************************************************************************)
\* def __init__(self)
SudoManager_init_params == { }
\* def grant_sudo(self, username: str)
grant_sudo_params == {"username"}
\* def revoke_sudo(self, username: str)
revoke_sudo_params == {"username"}
\* the methods class UserManager defines
UserManager_methods == {"user_exists", "create_user", "_setup_ssh_directory",
                        "install_ssh_key", "remove_ssh_access", "get_user_info",
                        "list_users_with_ssh", "validate_username"}

\* SudoManager() or SudoManager(user_manager)
ConstructorAccepts(bound) == bound => "user_manager" \in SudoManager_init_params

Passed(name, value) == IF value = "unset" THEN { } ELSE {name}

(***************************************************************************)
(* SudoManager.grant_sudo                                                  *)
(***************************************************************************)
\* the call: SudoManager([user_manager]).grant_sudo(u [, create_user=cu])
CallGrant(p, u, bound, cu) ==
    /\ proc[p].pc = "idle"
    /\ proc' = [proc EXCEPT ![p] =
          LET me == [IdleProc EXCEPT !.op = "grant", !.user = u, !.bound = bound, !.cu = cu]
          IN  IF ConstructorAccepts(bound)
                 /\ ({"username"} \cup Passed("create_user", cu)) \subseteq grant_sudo_params
              THEN [me EXCEPT !.pc = "g_exists"]
              ELSE [me EXCEPT !.pc = "done", !.result = "TypeError"]]
    /\ hist' = [hist EXCEPT ![p] = CallHist]
    /\ UNCHANGED <<sudoers, accounts, authkeys>>

\* GrantExists without the early return: the grant always goes on to write
GrantExists_NoEarlyReturn(p) ==
    /\ proc[p].pc = "g_exists"
    /\ proc' = [proc EXCEPT ![p] = Goto(p, "g_open")]
    /\ UNCHANGED <<sudoers, accounts, authkeys, hist>>

\* if sudoers_file.exists(): return
GrantExists(p) ==
    /\ proc[p].pc = "g_exists"
    /\ IF Exists(sudoers, SudoersFile(proc[p].user))
          THEN proc' = [proc EXCEPT ![p] = Finish(p, "ok")]
          ELSE proc' = [proc EXCEPT ![p] = Goto(p, "g_open")]
    /\ hist' = hist
    /\ UNCHANGED <<sudoers, accounts, authkeys>>

\* with open(temp_file, "w") as f:  -- creates the file or truncates it
GrantOpen(p) ==
    /\ proc[p].pc = "g_open"
    /\ LET T == TempFile(proc[p].user) IN
       \/ /\ sudoers' = [sudoers EXCEPT ![T] =
                 EmptyFile(IF Exists(sudoers, T) THEN sudoers[T].mode ELSE "0644")]
          /\ proc' = [proc EXCEPT ![p] = [proc[p] EXCEPT !.pc = "g_write", !.fd = T]]
          /\ hist' = LogWrite(p, "open", T)
       \/ /\ proc' = [proc EXCEPT ![p] = Goto(p, "g_except")]      \* OSError
          /\ hist' = LogFault(p, "open_failed")
          /\ UNCHANGED sudoers
    /\ UNCHANGED <<accounts, authkeys>>

\* f.write(sudo_rule), flushed when the with block closes the file; the
\* bytes go to the start of the file the descriptor was opened on, whatever
\* its name now and whatever was written to it since it was opened
GrantWrite(p) ==
    /\ proc[p].pc = "g_write"
    /\ LET fd == proc[p].fd IN
       \/ /\ IF fd \in Paths
                THEN \E text \in Overwritten(sudoers[fd], proc[p].user) :
                        sudoers' = [sudoers EXCEPT ![fd] =
                                      [@ EXCEPT !.kind = text.kind, !.user = text.user,
                                                !.checked = FALSE]]
                ELSE sudoers' = sudoers
          /\ proc' = [proc EXCEPT ![p] = [proc[p] EXCEPT !.pc = "g_chmod", !.fd = NoFd]]
          /\ hist' = LogWrite(p, "write", fd)
       \/ /\ proc' = [proc EXCEPT ![p] = [proc[p] EXCEPT !.pc = "g_except", !.fd = NoFd]]
          /\ hist' = LogFault(p, "write_failed")                   \* OSError
          /\ UNCHANGED sudoers
    /\ UNCHANGED <<accounts, authkeys>>

\* os.chmod(temp_file, 0o440)
GrantChmod(p) ==
    /\ proc[p].pc = "g_chmod"
    /\ LET T == TempFile(proc[p].user) IN
       \/ /\ IF Exists(sudoers, T)
                THEN /\ sudoers' = [sudoers EXCEPT ![T].mode = "0440"]
                     /\ proc' = [proc EXCEPT ![p] = Goto(p, "g_validate")]
                     /\ hist' = Log(p, "chmod")
                ELSE /\ proc' = [proc EXCEPT ![p] = Goto(p, "g_except")]  \* FileNotFoundError
                     /\ hist' = Log(p, "chmod_failed")
                     /\ UNCHANGED sudoers
       \/ /\ proc' = [proc EXCEPT ![p] = Goto(p, "g_except")]      \* OSError
          /\ hist' = LogFault(p, "chmod_failed")
          /\ UNCHANGED sudoers
    /\ UNCHANGED <<accounts, authkeys>>

\* _validate_sudoers_file: visudo -c -f file_path.  returncode 0 -> True,
\* any other -> False, FileNotFoundError (no visudo) -> True.
validate_sudoers_file_Strict(verdict) == verdict = "ok"

validate_sudoers_file(verdict) == verdict \in {"ok", "missing"}

\* if not self._validate_sudoers_file(temp_file):
GrantValidate(p) ==
    /\ proc[p].pc = "g_validate"
    /\ LET T == TempFile(proc[p].user) IN
       \E verdict \in {"ok", "reject", "missing"} :
          /\ verdict = "ok" => Exists(sudoers, T)    \* visudo cannot pass a file that is not there
          /\ proc' = [proc EXCEPT ![p] =
                [proc[p] EXCEPT !.verdict = verdict,
                                !.pc = IF validate_sudoers_file(verdict)
                                          THEN "g_rename" ELSE "g_unlink"]]
          /\ sudoers' = IF validate_sudoers_file(verdict) /\ Exists(sudoers, T)
                           THEN [sudoers EXCEPT ![T].checked = TRUE]
                           ELSE sudoers
          /\ hist' = Log(p, "validate")
    /\ UNCHANGED <<accounts, authkeys>>

\* subprocess.run raises an OSError other than FileNotFoundError (visudo is
\* there but may not be run): _validate_sudoers_file lets it through to
\* grant_sudo's except clause
GrantValidateRaises(p) ==
    /\ proc[p].pc = "g_validate"
    /\ proc' = [proc EXCEPT ![p] = Goto(p, "g_except")]
    /\ hist' = LogFault(p, "validate_failed")
    /\ UNCHANGED <<sudoers, accounts, authkeys>>

\* temp_file.unlink(); raise RuntimeError("Invalid sudoers configuration ...").
\* An unlink that fails raises an OSError, which the except clause catches.
GrantUnlinkInvalid(p) ==
    /\ proc[p].pc = "g_unlink"
    /\ LET T == TempFile(proc[p].user) IN
       \/ IF Exists(sudoers, T)
             THEN /\ sudoers' = [sudoers EXCEPT ![T] = NoFile]
                  /\ proc' = [q \in Procs |->
                        IF q = p THEN Finish(p, "InvalidSudoers")
                                 ELSE [proc[q] EXCEPT !.fd = FdsAfterUnlink(T)[q]]]
                  /\ hist' = Log(p, "unlink")
             ELSE /\ proc' = [proc EXCEPT ![p] = Goto(p, "g_except")]   \* FileNotFoundError
                  /\ hist' = Log(p, "unlink_failed")
                  /\ UNCHANGED sudoers
       \/ /\ proc' = [proc EXCEPT ![p] = Goto(p, "g_except")]         \* OSError
          /\ hist' = LogFault(p, "unlink_failed")
          /\ UNCHANGED sudoers
    /\ UNCHANGED <<accounts, authkeys>>

\* temp_file.rename(sudoers_file)
GrantRename(p) ==
    /\ proc[p].pc = "g_rename"
    /\ LET T == TempFile(proc[p].user)
           D == SudoersFile(proc[p].user) IN
       \/ /\ IF Exists(sudoers, T)
                THEN /\ sudoers' = IF T = D THEN sudoers
                                      ELSE [sudoers EXCEPT ![D] = sudoers[T], ![T] = NoFile]
                     /\ proc' = [q \in Procs |->
                           IF q = p THEN Finish(p, "ok")
                                    ELSE [proc[q] EXCEPT !.fd = FdsAfterRename(T, D)[q]]]
                     /\ hist' = LogWrite(p, "rename", D)
                ELSE /\ proc' = [proc EXCEPT ![p] = Goto(p, "g_except")]  \* FileNotFoundError
                     /\ hist' = Log(p, "rename_failed")
                     /\ UNCHANGED sudoers
       \/ /\ proc' = [proc EXCEPT ![p] = Goto(p, "g_except")]      \* OSError
          /\ hist' = LogFault(p, "rename_failed")
          /\ UNCHANGED sudoers
    /\ UNCHANGED <<accounts, authkeys>>

\* except (OSError, PermissionError): temp_file = SUDOERS_DIR /
\* f"{username}.tmp"; if temp_file.exists(): ... ; raise RuntimeError("Failed
\* to grant sudo access ...")
GrantExcept(p) ==
    /\ proc[p].pc = "g_except"
    /\ proc' = [proc EXCEPT ![p] =
          IF Exists(sudoers, HandlerTempFile(proc[p].user))
             THEN Goto(p, "g_cleanup") ELSE Finish(p, "SudoGrantError")]
    /\ UNCHANGED <<sudoers, accounts, authkeys, hist>>

\* try: temp_file.unlink()  except: pass  -- then the raise.  The file may
\* be gone since exists() saw it; any failure to unlink is swallowed.
GrantExceptUnlink(p) ==
    /\ proc[p].pc = "g_cleanup"
    /\ LET H == HandlerTempFile(proc[p].user) IN
       \/ IF Exists(sudoers, H)
             THEN /\ sudoers' = [sudoers EXCEPT ![H] = NoFile]
                  /\ proc' = [q \in Procs |->
                        IF q = p THEN Finish(p, "SudoGrantError")
                                 ELSE [proc[q] EXCEPT !.fd = FdsAfterUnlink(H)[q]]]
                  /\ hist' = Log(p, "cleanup")
             ELSE /\ proc' = [proc EXCEPT ![p] = Finish(p, "SudoGrantError")]
                  /\ hist' = Log(p, "cleanup_failed")            \* FileNotFoundError
                  /\ UNCHANGED sudoers
       \/ /\ proc' = [proc EXCEPT ![p] = Finish(p, "SudoGrantError")]
          /\ hist' = LogFault(p, "cleanup_failed")               \* OSError
          /\ UNCHANGED sudoers
    /\ UNCHANGED <<accounts, authkeys>>

(***************************************************************************)
(* SudoManager.revoke_sudo                                                 *)
(***************************************************************************)
\* the call: SudoManager([user_manager]).revoke_sudo(u [, remove_ssh=rs] [, delete_user=du])
CallRevoke(p, u, bound, rs, du) ==
    /\ proc[p].pc = "idle"
    /\ proc' = [proc EXCEPT ![p] =
          LET me == [IdleProc EXCEPT !.op = "revoke", !.user = u, !.bound = bound,
                                     !.rs = rs, !.du = du]
          IN  IF ConstructorAccepts(bound)
                 /\ ({"username"} \cup Passed("remove_ssh", rs) \cup Passed("delete_user", du))
                        \subseteq revoke_sudo_params
              THEN [me EXCEPT !.pc = "r_exists"]
              ELSE [me EXCEPT !.pc = "done", !.result = "TypeError"]]
    /\ hist' = [hist EXCEPT ![p] = CallHist]
    /\ UNCHANGED <<sudoers, accounts, authkeys>>

\* RevokeExists without the early return: the revoke always goes on to unlink
RevokeExists_NoEarlyReturn(p) ==
    /\ proc[p].pc = "r_exists"
    /\ proc' = [proc EXCEPT ![p] = Goto(p, "r_unlink")]
    /\ UNCHANGED <<sudoers, accounts, authkeys, hist>>

\* if not sudoers_file.exists(): return
RevokeExists(p) ==
    /\ proc[p].pc = "r_exists"
    /\ proc' = [proc EXCEPT ![p] =
          IF Exists(sudoers, SudoersFile(proc[p].user))
             THEN Goto(p, "r_unlink") ELSE Finish(p, "ok")]
    /\ UNCHANGED <<sudoers, accounts, authkeys, hist>>

\* sudoers_file.unlink(); OSError -> RuntimeError("Failed to remove sudo access ...")
RevokeUnlink(p) ==
    /\ proc[p].pc = "r_unlink"
    /\ LET D == SudoersFile(proc[p].user) IN
       \/ /\ IF Exists(sudoers, D)
                THEN /\ sudoers' = [sudoers EXCEPT ![D] = NoFile]
                     /\ proc' = [q \in Procs |->
                           IF q = p THEN Finish(p, "ok")
                                    ELSE [proc[q] EXCEPT !.fd = FdsAfterUnlink(D)[q]]]
                     /\ hist' = Log(p, "unlink")
                ELSE /\ proc' = [proc EXCEPT ![p] = Finish(p, "SudoRevokeError")]
                     /\ hist' = Log(p, "unlink_failed")
                     /\ UNCHANGED sudoers
       \/ /\ proc' = [proc EXCEPT ![p] = Finish(p, "SudoRevokeError")]   \* OSError
          /\ hist' = LogFault(p, "unlink_failed")
          /\ UNCHANGED sudoers
    /\ UNCHANGED <<accounts, authkeys>>

(***************************************************************************)
(* UserManager                                                             *)
(***************************************************************************)
\* user_exists: pwd.getpwnam(username) finds the account
user_exists(u) == u \in accounts

\* attribute lookup on a UserManager object
UserManager_getattr(method) ==
    IF method \in UserManager_methods THEN "method" ELSE "AttributeError"

\* the call: UserManager().remove_ssh_access(u)
CallRemoveSsh(p, u) ==
    /\ proc[p].pc = "idle"
    /\ UserManager_getattr("remove_ssh_access") = "method"
    /\ proc' = [proc EXCEPT ![p] =
          [IdleProc EXCEPT !.op = "remove_ssh_access", !.user = u, !.pc = "s_lookup"]]
    /\ hist' = [hist EXCEPT ![p] =
          [CallHist EXCEPT !.trace = <<"remove_ssh_access">>]]
    /\ UNCHANGED <<sudoers, accounts, authkeys>>

\* if not self.user_exists(username): return
\* if not authorized_keys.exists(): return
RemoveSshLookup(p) ==
    /\ proc[p].pc = "s_lookup"
    /\ proc' = [proc EXCEPT ![p] =
          IF user_exists(proc[p].user) /\ authkeys[proc[p].user].exists
             THEN Goto(p, "s_unlink") ELSE Finish(p, "ok")]
    /\ UNCHANGED <<sudoers, accounts, authkeys, hist>>

\* RemoveSshUnlink removing the whole of ~/.ssh
RemoveSshUnlink_RemovesDir(p) ==
    /\ proc[p].pc = "s_unlink"
    /\ authkeys' = [authkeys EXCEPT ![proc[p].user] = NoKeys]
    /\ proc' = [proc EXCEPT ![p] = Finish(p, "ok")]
    /\ hist' = Log(p, "unlink_keys")
    /\ UNCHANGED <<sudoers, accounts>>

\* authorized_keys.unlink(); OSError -> RuntimeError("Failed to remove SSH access ...")
RemoveSshUnlink(p) ==
    /\ proc[p].pc = "s_unlink"
    /\ \/ /\ authkeys' = [authkeys EXCEPT ![proc[p].user] =
                 [@ EXCEPT !.exists = FALSE, !.content = NoText,
                           !.mode = "none", !.owner = "none"]]
          /\ proc' = [proc EXCEPT ![p] = Finish(p, "ok")]
          /\ hist' = Log(p, "unlink_keys")
       \/ /\ proc' = [proc EXCEPT ![p] = Finish(p, "SshRemoveError")]    \* OSError
          /\ hist' = LogFault(p, "unlink_keys_failed")
          /\ UNCHANGED authkeys
    /\ UNCHANGED <<sudoers, accounts>>

\* the call: UserManager().delete_user(u).  UserManager defines no
\* delete_user: the attribute lookup raises AttributeError.
CallDeleteUser(p, u) ==
    /\ proc[p].pc = "idle"
    /\ UserManager_getattr("delete_user") = "AttributeError"
    /\ proc' = [proc EXCEPT ![p] =
          [IdleProc EXCEPT !.op = "delete_user", !.user = u,
                           !.pc = "done", !.result = "AttributeError"]]
    /\ hist' = [hist EXCEPT ![p] = CallHist]
    /\ UNCHANGED <<sudoers, accounts, authkeys>>

Fail(p, res, msg) == [Finish(p, res) EXCEPT !.msg = msg]

\* the call: UserManager().create_user(u)
CallCreateUser(p, u) ==
    /\ proc[p].pc = "idle"
    /\ proc' = [proc EXCEPT ![p] =
          [IdleProc EXCEPT !.op = "create_user", !.user = u, !.pc = "c_exists"]]
    /\ hist' = [hist EXCEPT ![p] = CallHist]
    /\ UNCHANGED <<sudoers, accounts, authkeys>>

\* CreateExists without the early return: useradd is always run
CreateExists_NoEarlyReturn(p) ==
    /\ proc[p].pc = "c_exists"
    /\ proc' = [proc EXCEPT ![p] = Goto(p, "c_useradd")]
    /\ UNCHANGED <<sudoers, accounts, authkeys, hist>>

\* if self.user_exists(username): return
CreateExists(p) ==
    /\ proc[p].pc = "c_exists"
    /\ proc' = [proc EXCEPT ![p] =
          IF user_exists(proc[p].user) THEN Finish(p, "ok") ELSE Goto(p, "c_useradd")]
    /\ UNCHANGED <<sudoers, accounts, authkeys, hist>>

\* subprocess.run(["useradd", "-m", "-s", shell, username], check=True):
\* the account and its home directory are made, or useradd exits non-zero
\* (CalledProcessError, reported with e.stderr) or cannot be run at all (any
\* other exception, reported with str(e)); both become RuntimeError.  A
\* useradd that exits non-zero may have entered the account already (it
\* does when it cannot make the home directory).
CreateUseradd(p) ==
    /\ proc[p].pc = "c_useradd"
    /\ \/ /\ accounts' = accounts \cup {proc[p].user}
          /\ proc' = [proc EXCEPT ![p] = Goto(p, "d_mkdir")]
          /\ hist' = Log(p, "useradd")
       \/ /\ \E raised \in {"CalledProcessError", "Exception"}, made \in BOOLEAN :
                /\ made => raised = "CalledProcessError"
                /\ accounts' = IF made THEN accounts \cup {proc[p].user} ELSE accounts
                /\ proc' = [proc EXCEPT ![p] =
                      Fail(p, "AccountCreationError",
                           IF raised = "CalledProcessError" THEN "e.stderr" ELSE "str(e)")]
          /\ hist' = LogFault(p, "useradd_failed")
    /\ UNCHANGED <<sudoers, authkeys>>

\* what follows a failure of _setup_ssh_directory: create_user catches it
\* (except Exception) and cleans up; install_ssh_key catches only KeyError,
\* OSError and PermissionError, so the RuntimeError goes to its caller
SetupFailed(p, msg) ==
    IF proc[p].op = "create_user"
       THEN [proc[p] EXCEPT !.pc = "c_cleanup", !.msg = msg]
       ELSE Fail(p, "SshSetupError", msg)

\* _setup_ssh_directory: user_info = pwd.getpwnam(username);
\* ssh_dir.mkdir(mode=0o700, exist_ok=True)
SetupSshMkdir(p) ==
    /\ proc[p].pc = "d_mkdir"
    /\ LET u == proc[p].user IN
       \/ /\ IF user_exists(u)
                THEN /\ authkeys' = [authkeys EXCEPT ![u].dir = TRUE]
                     /\ proc' = [proc EXCEPT ![p] = Goto(p, "d_chown")]
                     /\ hist' = Log(p, "mkdir")
                ELSE /\ proc' = [proc EXCEPT ![p] = SetupFailed(p, "not found")]  \* KeyError
                     /\ hist' = Log(p, "getpwnam_failed")
                     /\ UNCHANGED authkeys
       \/ /\ proc' = [proc EXCEPT ![p] = SetupFailed(p, "mkdir: e")]       \* OSError
          /\ hist' = LogFault(p, "mkdir_failed")
          /\ UNCHANGED authkeys
    /\ UNCHANGED <<sudoers, accounts>>

\* _setup_ssh_directory: os.chown(ssh_dir, user_info.pw_uid, user_info.pw_gid)
SetupSshChown(p) ==
    /\ proc[p].pc = "d_chown"
    /\ \/ /\ proc' = [proc EXCEPT ![p] =
                Goto(p, IF proc[p].op = "create_user" THEN "c_return" ELSE "i_read")]
          /\ hist' = Log(p, "chown_dir")
       \/ /\ proc' = [proc EXCEPT ![p] = SetupFailed(p, "chown: e")]       \* OSError
          /\ hist' = LogFault(p, "chown_dir_failed")
    /\ UNCHANGED <<sudoers, accounts, authkeys>>

\* logger.info(f"User {username} created successfully")
CreateReturn(p) ==
    /\ proc[p].pc = "c_return"
    /\ proc' = [proc EXCEPT ![p] = Finish(p, "ok")]
    /\ UNCHANGED <<sudoers, accounts, authkeys, hist>>

\* CreateCleanup without the userdel: the error is raised at once
CreateCleanup_NoUserdel(p) ==
    /\ proc[p].pc = "c_cleanup"
    /\ proc' = [proc EXCEPT ![p] = Finish(p, "SshSetupError")]
    /\ UNCHANGED <<sudoers, accounts, authkeys, hist>>

\* except Exception as e: subprocess.run(["userdel", "-r", username]) -- its
\* exit status is not looked at, an exception of it is swallowed; userdel
\* may remove the account and leave the home directory behind -- then
\* raise RuntimeError(f"Failed to setup SSH directory for {username}: {e}")
CreateCleanup(p) ==
    /\ proc[p].pc = "c_cleanup"
    /\ LET u == proc[p].user IN
       \/ /\ accounts' = accounts \ {u}               \* userdel -r: account and home gone
          /\ authkeys' = [authkeys EXCEPT ![u] = NoKeys]
          /\ hist' = Log(p, "userdel")
       \/ /\ accounts' = accounts \ {u}               \* account gone, the home not removed
          /\ hist' = Log(p, "userdel")
          /\ UNCHANGED authkeys
       \/ /\ hist' = LogFault(p, "userdel_failed")
          /\ UNCHANGED <<accounts, authkeys>>
    /\ proc' = [proc EXCEPT ![p] = Finish(p, "SshSetupError")]
    /\ UNCHANGED sudoers

CreateSteps(p) ==
    \/ CreateExists(p)
    \/ CreateUseradd(p)
    \/ CreateReturn(p)
    \/ CreateCleanup(p)

SetupSteps(p) ==
    \/ SetupSshMkdir(p)
    \/ SetupSshChown(p)

\* the call: UserManager().install_ssh_key(u, k)
CallInstallKey(p, u, k) ==
    /\ proc[p].pc = "idle"
    /\ proc' = [proc EXCEPT ![p] =
          [IdleProc EXCEPT !.op = "install_ssh_key", !.user = u, !.key = k,
                           !.pc = "i_exists"]]
    /\ hist' = [hist EXCEPT ![p] = CallHist]
    /\ UNCHANGED <<sudoers, accounts, authkeys>>

\* InstallExists without the check: the install goes on for any username
InstallExists_NoCheck(p) ==
    /\ proc[p].pc = "i_exists"
    /\ proc' = [proc EXCEPT ![p] = Goto(p, "d_mkdir")]
    /\ UNCHANGED <<sudoers, accounts, authkeys, hist>>

\* if not self.user_exists(username):
\*     raise RuntimeError(f"User {username} does not exist")
InstallExists(p) ==
    /\ proc[p].pc = "i_exists"
    /\ proc' = [proc EXCEPT ![p] =
          IF user_exists(proc[p].user)
             THEN Goto(p, "d_mkdir")
             ELSE Fail(p, "AccountNotFound", "does not exist")]
    /\ UNCHANGED <<sudoers, accounts, authkeys, hist>>

\* InstallRead without the membership test: the key is always appended
InstallRead_NoSkip(p) ==
    /\ proc[p].pc = "i_read"
    /\ proc' = [proc EXCEPT ![p] = Goto(p, "i_open")]
    /\ hist' = Log(p, "read_keys")
    /\ UNCHANGED <<sudoers, accounts, authkeys>>

\* if authorized_keys.exists(): existing_keys = f.read();
\*     if public_key.strip() in existing_keys: return
InstallRead(p) ==
    /\ proc[p].pc = "i_read"
    /\ LET file == authkeys[proc[p].user] IN
       \/ /\ proc' = [proc EXCEPT ![p] =
                IF file.exists /\ IsSubstring(strip(proc[p].key), file.content)
                   THEN Finish(p, "ok") ELSE Goto(p, "i_open")]
          /\ hist' = IF file.exists THEN Log(p, "read_keys") ELSE hist
       \/ /\ file.exists
          /\ proc' = [proc EXCEPT ![p] = Fail(p, "KeyInstallError", "read: e")]   \* OSError
          /\ hist' = LogFault(p, "read_keys_failed")
    /\ UNCHANGED <<sudoers, accounts, authkeys>>

\* with open(authorized_keys, "a") as f:  -- opens the file for appending,
\* creating it (root's, 0644 under the usual umask) when it is not there
InstallOpen(p) ==
    /\ proc[p].pc = "i_open"
    /\ LET u == proc[p].user IN
       \/ /\ IF authkeys[u].dir
                THEN /\ authkeys' = [authkeys EXCEPT ![u] =
                           IF @.exists THEN @
                           ELSE [@ EXCEPT !.exists = TRUE, !.content = NoText,
                                          !.mode = "0644", !.owner = "root"]]
                     /\ proc' = [proc EXCEPT ![p] = Goto(p, "i_write")]
                     /\ hist' = Log(p, "open_keys")
                ELSE /\ proc' = [proc EXCEPT ![p] =
                           Fail(p, "KeyInstallError", "open: e")]   \* FileNotFoundError
                     /\ hist' = Log(p, "open_keys_failed")
                     /\ UNCHANGED authkeys
       \/ /\ proc' = [proc EXCEPT ![p] = Fail(p, "KeyInstallError", "open: e")]  \* OSError
          /\ hist' = LogFault(p, "open_keys_failed")
          /\ UNCHANGED authkeys
    /\ UNCHANGED <<sudoers, accounts>>

\* f.write(f"{public_key.strip()}\n"), written at the end of the file when
\* the with block closes it
InstallWrite(p) ==
    /\ proc[p].pc = "i_write"
    /\ LET u == proc[p].user IN
       \/ /\ authkeys' = IF authkeys[u].exists
                            THEN [authkeys EXCEPT ![u].content =
                                     @ \o strip(proc[p].key) \o <<"\n">>]
                            ELSE authkeys            \* the file was unlinked meanwhile
          /\ proc' = [proc EXCEPT ![p] = Goto(p, "i_chmod")]
          /\ hist' = Log(p, "write_keys")
       \/ /\ proc' = [proc EXCEPT ![p] = Fail(p, "KeyInstallError", "write: e")]  \* OSError
          /\ hist' = LogFault(p, "write_keys_failed")
          /\ UNCHANGED authkeys
    /\ UNCHANGED <<sudoers, accounts>>

\* os.chmod(authorized_keys, 0o600)
InstallChmod(p) ==
    /\ proc[p].pc = "i_chmod"
    /\ LET u == proc[p].user IN
       \/ /\ IF authkeys[u].exists
                THEN /\ authkeys' = [authkeys EXCEPT ![u].mode = "0600"]
                     /\ proc' = [proc EXCEPT ![p] = Goto(p, "i_chown")]
                     /\ hist' = Log(p, "chmod_keys")
                ELSE /\ proc' = [proc EXCEPT ![p] =
                           Fail(p, "KeyInstallError", "chmod: e")]  \* FileNotFoundError
                     /\ hist' = Log(p, "chmod_keys_failed")
                     /\ UNCHANGED authkeys
       \/ /\ proc' = [proc EXCEPT ![p] = Fail(p, "KeyInstallError", "chmod: e")]  \* OSError
          /\ hist' = LogFault(p, "chmod_keys_failed")
          /\ UNCHANGED authkeys
    /\ UNCHANGED <<sudoers, accounts>>

\* os.chown(authorized_keys, user_info.pw_uid, user_info.pw_gid)
InstallChown(p) ==
    /\ proc[p].pc = "i_chown"
    /\ LET u == proc[p].user IN
       \/ /\ IF authkeys[u].exists
                THEN /\ authkeys' = [authkeys EXCEPT ![u].owner = "account"]
                     /\ proc' = [proc EXCEPT ![p] = Finish(p, "ok")]
                     /\ hist' = Log(p, "chown_keys")
                ELSE /\ proc' = [proc EXCEPT ![p] =
                           Fail(p, "KeyInstallError", "chown: e")]  \* FileNotFoundError
                     /\ hist' = Log(p, "chown_keys_failed")
                     /\ UNCHANGED authkeys
       \/ /\ proc' = [proc EXCEPT ![p] = Fail(p, "KeyInstallError", "chown: e")]  \* OSError
          /\ hist' = LogFault(p, "chown_keys_failed")
          /\ UNCHANGED authkeys
    /\ UNCHANGED <<sudoers, accounts>>

InstallSteps(p) ==
    \/ InstallExists(p)
    \/ InstallRead(p)
    \/ InstallOpen(p)
    \/ InstallWrite(p)
    \/ InstallChmod(p)
    \/ InstallChown(p)

(***************************************************************************)
(* GitRepository._validate_ssh_public_key                                  *)
(***************************************************************************)
\* the position of the first whitespace character of t, or Len(t) + 1
TokenEnd(t) ==
    CHOOSE i \in 1..(Len(t) + 1) :
        /\ i = Len(t) + 1 \/ t[i] \in Whitespace
        /\ \A j \in 1..(i - 1) : t[j] \notin Whitespace

\* str.split(): the maximal runs of non-whitespace characters, in order
RECURSIVE split(_)
split(t) ==
    LET rest == lstrip(t) IN
    IF rest = << >> THEN << >>
    ELSE <<SubSeq(rest, 1, TokenEnd(rest) - 1)>>
            \o split(SubSeq(rest, TokenEnd(rest), Len(rest)))

valid_types == {
    <<"s", "s", "h", "-", "r", "s", "a">>,
    <<"s", "s", "h", "-", "e", "d", "2", "5", "5", "1", "9">>,
    <<"e", "c", "d", "s", "a", "-", "s", "h", "a", "2", "-", "n", "i", "s", "t", "p", "2", "5", "6">>,
    <<"e", "c", "d", "s", "a", "-", "s", "h", "a", "2", "-", "n", "i", "s", "t", "p", "3", "8", "4">>,
    <<"e", "c", "d", "s", "a", "-", "s", "h", "a", "2", "-", "n", "i", "s", "t", "p", "5", "2", "1">>,
    <<"s", "s", "h", "-", "d", "s", "s">> }

\* the base64 alphabet of binascii (table_a2b_base64)
B64Alphabet == {
    "A", "B", "C", "D", "E", "F", "G", "H", "I", "J", "K", "L", "M",
    "N", "O", "P", "Q", "R", "S", "T", "U", "V", "W", "X", "Y", "Z",
    "a", "b", "c", "d", "e", "f", "g", "h", "i", "j", "k", "l", "m",
    "n", "o", "p", "q", "r", "s", "t", "u", "v", "w", "x", "y", "z",
    "0", "1", "2", "3", "4", "5", "6", "7", "8", "9", "+", "/" }

\* the characters of the inputs that are not ASCII: base64.b64decode turns a
\* str into bytes with s.encode("ascii"), which raises ValueError on them
NonAscii == {"U+00E9"}

\* binascii.a2b_base64, not strict: a character outside the alphabet is
\* skipped; "=" ends the data once enough padding follows at least two
\* characters of a quad; at the end of the data a quad left open is an error.
\* TRUE when it returns, FALSE when it raises binascii.Error.
RECURSIVE a2b_base64(_, _, _)
a2b_base64(t, quad_pos, pads) ==
    IF t = << >> THEN quad_pos = 0
    ELSE IF Head(t) = "="
        THEN IF quad_pos >= 2
                THEN IF quad_pos + pads + 1 >= 4 THEN TRUE
                     ELSE a2b_base64(Tail(t), quad_pos, pads + 1)
                ELSE a2b_base64(Tail(t), quad_pos, pads)
    ELSE IF Head(t) \in B64Alphabet
        THEN a2b_base64(Tail(t), (quad_pos + 1) % 4, 0)
    ELSE a2b_base64(Tail(t), quad_pos, pads)

\* base64.b64decode(key_data) returns (TRUE) or raises (FALSE)
b64decode(t) ==
    IF \E i \in 1..Len(t) : t[i] \in NonAscii THEN FALSE
    ELSE a2b_base64(t, 0, 0)

\* _validate_ssh_public_key(key_content)
validate_ssh_public_key(key_content) ==
    LET parts == split(strip(key_content)) IN
    IF Len(parts) < 2 THEN FALSE
    ELSE IF parts[1] \notin valid_types THEN FALSE
    ELSE b64decode(parts[2])

\* a process about to call GitRepository(...)._validate_ssh_public_key(blob)
ValidateCaller(blob) ==
    [IdleProc EXCEPT !.op = "validate_ssh_public_key", !.key = blob, !.pc = "v_call"]

\* the call returns True or False
ValidateKey(p) ==
    /\ proc[p].pc = "v_call"
    /\ proc' = [proc EXCEPT ![p] =
          Finish(p, IF validate_ssh_public_key(proc[p].key) THEN "True" ELSE "False")]
    /\ hist' = [hist EXCEPT ![p] = CallHist]
    /\ UNCHANGED <<sudoers, accounts, authkeys>>

(***************************************************************************)
(* The commands of cli.py.  Both parse the package and then build          *)
(* SudoManager(user_manager) inside their try block before they do         *)
(* anything to the host; `except Exception` turns whatever is raised into  *)
(* "Error: ..." and sys.exit(1).                                           *)
(***************************************************************************)
\* _parse_package: kind/username with kind in {user, sudo}
PackageKinds == {"user", "sudo"}

\* addy install kind/u: check_root() and _parse_package(package) passed
CliInstall(p, kind, u) ==
    /\ proc[p].pc = "idle"
    /\ proc' = [proc EXCEPT ![p] =
          [IdleProc EXCEPT !.op = "install", !.kind = kind, !.user = u,
                           !.pc = "cli_construct"]]
    /\ hist' = [hist EXCEPT ![p] = CallHist]
    /\ UNCHANGED <<sudoers, accounts, authkeys>>

\* addy remove kind/u [--remove-user] [--delete-account]: check_root() and
\* _parse_package(package) passed
CliRemove(p, kind, u, ru, da) ==
    /\ proc[p].pc = "idle"
    /\ proc' = [proc EXCEPT ![p] =
          [IdleProc EXCEPT !.op = "remove", !.kind = kind, !.user = u,
                           !.ru = ru, !.da = da,
                           !.pc = "cli_construct"]]
    /\ hist' = [hist EXCEPT ![p] = CallHist]
    /\ UNCHANGED <<sudoers, accounts, authkeys>>

\* CliConstruct going on after the error: a later step of the command runs
CliConstruct_ContinuesAfterError(p) ==
    /\ proc[p].pc = "cli_construct"
    /\ proc' = [proc EXCEPT ![p] = Finish(p, "exit1")]
    /\ accounts' = accounts \ {proc[p].user}
    /\ hist' = Log(p, "TypeError")
    /\ UNCHANGED <<sudoers, authkeys>>

\* config_manager = ConfigManager(); git_repo = GitRepository(config_manager)
\* (install only: each makes its directory, RuntimeError when it may not);
\* user_manager = UserManager(); sudo_manager = SudoManager(user_manager):
\* TypeError, SudoManager.__init__ takes no argument.
\* except Exception as e: click.echo(f"Error: {e}", err=True); sys.exit(1)
CliConstruct(p) ==
    /\ proc[p].pc = "cli_construct"
    /\ ~ConstructorAccepts(TRUE)
    /\ proc' = [proc EXCEPT ![p] = Finish(p, "exit1")]
    /\ \/ hist' = Log(p, "TypeError")
       \/ /\ proc[p].op = "install"
          /\ hist' = LogFault(p, "RuntimeError")
    /\ UNCHANGED <<sudoers, accounts, authkeys>>

\* The operator runs the same command again after it failed.
CliRetry(p) ==
    /\ proc[p].pc = "done"
    /\ proc[p].op \in {"install", "remove"}
    /\ proc[p].result = "exit1"
    /\ ~proc[p].retry
    /\ proc' = [proc EXCEPT ![p] =
          [IdleProc EXCEPT !.op = proc[p].op, !.kind = proc[p].kind,
                           !.user = proc[p].user, !.ru = proc[p].ru,
                           !.da = proc[p].da, !.retry = TRUE,
                           !.pc = "cli_construct"]]
    /\ hist' = [hist EXCEPT ![p] = CallHist]
    /\ UNCHANGED <<sudoers, accounts, authkeys>>

(***************************************************************************)
(* Package specifiers and usernames, as text.                              *)
(***************************************************************************)
\* str.isalnum() of one character: letters and digits, non-ASCII letters
\* included
Alnum == {"a", "b", "d", "e", "o", "r", "s", "u", "x", "A", "1", "U+00E9"}

\* s.isalnum(): not empty and every character alphanumeric
isalnum(t) == t # << >> /\ \A i \in 1..Len(t) : t[i] \in Alnum

\* s.replace(c, "")
replace(t, c) == SelectSeq(t, LAMBDA ch : ch # c)

\* username.replace("-", "").replace("_", "").replace(".", "").isalnum()
isalnum_but_punctuation(username) ==
    isalnum(replace(replace(replace(username, "-"), "_"), "."))

\* the longest username validate_username accepts
UsernameMax == 32

\* UserManager.validate_username
validate_username(username) ==
    /\ username # << >>
    /\ isalnum_but_punctuation(username)
    /\ Head(username) \in Alnum
    /\ Len(username) <= UsernameMax

\* package.split("/", 1), for a package that holds a "/"
split_slash(package) ==
    LET i == CHOOSE k \in 1..Len(package) :
                 package[k] = "/" /\ \A j \in 1..(k - 1) : package[j] # "/"
    IN  <<SubSeq(package, 1, i - 1), SubSeq(package, i + 1, Len(package))>>

PackageTypes == { <<"u", "s", "e", "r">>, <<"s", "u", "d", "o">> }

\* _parse_package: the pair it returns, or the ValueError it raises
parse_package(package) ==
    IF \A i \in 1..Len(package) : package[i] # "/"
       THEN [ok |-> FALSE, package_type |-> NoText, username |-> NoText,
             error |-> "Invalid package format"]
    ELSE LET parts == split_slash(package) IN
         IF parts[1] \notin PackageTypes
            THEN [ok |-> FALSE, package_type |-> NoText, username |-> NoText,
                  error |-> "Package type must be 'user' or 'sudo'"]
         ELSE IF parts[2] = << >> \/ ~isalnum_but_punctuation(parts[2])
            THEN [ok |-> FALSE, package_type |-> NoText, username |-> NoText,
                  error |-> "Invalid username"]
         ELSE [ok |-> TRUE, package_type |-> parts[1], username |-> parts[2],
               error |-> "none"]

\* a process that has entered install or remove as root with this package
CliCaller(command, package) ==
    [IdleProc EXCEPT !.op = command, !.package = package, !.pc = "cli_parse"]

\* package_type, username = _parse_package(package)
CliParse(p) ==
    /\ proc[p].pc = "cli_parse"
    /\ LET parsed == parse_package(proc[p].package) IN
       IF parsed.ok
          THEN /\ proc' = [proc EXCEPT ![p] =
                     [proc[p] EXCEPT
                         !.kind = IF parsed.package_type = <<"u", "s", "e", "r">>
                                     THEN "user" ELSE "sudo",
                         !.user = parsed.username,
                         !.pc = "cli_construct"]]
               /\ hist' = [hist EXCEPT ![p] = CallHist]
          ELSE /\ proc' = [proc EXCEPT ![p] = Fail(p, "exit1", parsed.error)]
               /\ hist' = [hist EXCEPT ![p] =
                     [CallHist EXCEPT !.trace = <<"ValueError">>]]
    /\ UNCHANGED <<sudoers, accounts, authkeys>>

(***************************************************************************)
(* Specifications.                                                         *)
(***************************************************************************)
KwValues == {"unset", "true", "false"}

\* the keyword arguments revoke_sudo is called with: none, remove_ssh alone,
\* delete_user alone, or both
RevokeKw == { <<"unset", "unset">>, <<"true", "unset">>, <<"unset", "true">> }
                \cup ({"true", "false"} \X {"true", "false"})

GrantSteps(p) ==
    \/ GrantExists(p)
    \/ GrantOpen(p)
    \/ GrantWrite(p)
    \/ GrantChmod(p)
    \/ GrantValidate(p)
    \/ GrantValidateRaises(p)
    \/ GrantUnlinkInvalid(p)
    \/ GrantRename(p)
    \/ GrantExcept(p)
    \/ GrantExceptUnlink(p)

\* One invocation at a time, run to completion: the tool as the spec means
\* it to be used.
Main == CHOOSE p \in Procs : \A q \in Procs : p <= q

\* the call has returned (or the command has exited): the process is ready
\* for the next invocation
Return(p) ==
    /\ proc[p].pc = "done"
    /\ proc' = [proc EXCEPT ![p] = IdleProc]
    /\ hist' = [hist EXCEPT ![p] = IdleHist]
    /\ UNCHANGED <<sudoers, accounts, authkeys>>

Next ==
    \/ \E u \in Usernames, bound \in BOOLEAN, cu \in KwValues :
          CallGrant(Main, u, bound, cu)
    \/ \E u \in Usernames, bound \in BOOLEAN, kw \in RevokeKw :
          CallRevoke(Main, u, bound, kw[1], kw[2])
    \/ \E u \in Usernames : CallRemoveSsh(Main, u)
    \/ \E u \in Usernames : CallDeleteUser(Main, u)
    \/ \E kind \in PackageKinds, u \in Usernames : CliInstall(Main, kind, u)
    \/ \E kind \in PackageKinds, u \in Usernames, ru \in BOOLEAN, da \in BOOLEAN :
          CliRemove(Main, kind, u, ru, da)
    \/ CliConstruct(Main)
    \/ GrantSteps(Main)
    \/ RevokeExists(Main)
    \/ RevokeUnlink(Main)
    \/ RemoveSshLookup(Main)
    \/ RemoveSshUnlink(Main)
    \/ Return(Main)

Spec == Init /\ [][Next]_vars

\* Concurrent invocations of grant in separate processes, each one call.
InitConc ==
    /\ sudoers = NoFiles
    /\ accounts = Usernames
    /\ authkeys = [u \in Usernames |-> NoKeys]
    /\ proc = [p \in Procs |-> IdleProc]
    /\ hist = [p \in Procs |-> IdleHist]

NextConc ==
    \E p \in Procs :
        \/ \E u \in Usernames : CallGrant(p, u, FALSE, "unset")
        \/ GrantSteps(p)

SpecConc == InitConc /\ [][NextConc]_vars

\* The install and remove commands, one invocation at a time, each repeated
\* at most once after a failure; a command that has started runs on.
NextCli ==
    \/ \E kind \in PackageKinds, u \in Usernames : CliInstall(Main, kind, u)
    \/ \E kind \in PackageKinds, u \in Usernames, ru \in BOOLEAN, da \in BOOLEAN :
          CliRemove(Main, kind, u, ru, da)
    \/ CliConstruct(Main)
    \/ CliRetry(Main)
    \/ Return(Main)

SpecCli == Init /\ [][NextCli]_vars /\ WF_vars(CliConstruct(Main))

\* The keys install_ssh_key is called with: "ssh-rsa AAAA"; a longer key
\* that begins with it; the first with blanks and a line end around it;
\* text that is no key; and two lines, the first a key.
Key2 == Key1 \o <<"A", "A", "A", "A">>
Key1Padded == <<" ">> \o Key1 \o <<"\n">>
NotAKey == <<"s", "s", "h">>
TwoLines == Key1 \o <<"\n">> \o NotAKey
Keys == {Key1, Key2, Key1Padded, NotAKey, TwoLines}

\* The texts the validator is called with: an optional blank, a first word
\* (a key type, a word that is none, or nothing), a separator, a data field
\* of at most MaxData characters, an optional comment.
MaxData == 4

DataChars == {"A", "=", "!", "U+00E9"}

RECURSIVE TextsUpTo(_, _)
TextsUpTo(alphabet, n) ==
    IF n = 0 THEN { << >> }
    ELSE LET shorter == TextsUpTo(alphabet, n - 1) IN
         shorter \cup { t \o <<c>> : t \in shorter, c \in alphabet }

Blobs ==
    { lead \o first \o sep \o data \o comment :
        lead \in { << >>, <<" ">> },
        first \in valid_types \cup { << >>, NotAKey },
        sep \in { << >>, <<" ">>, <<"\t", "\n">> },
        data \in TextsUpTo(DataChars, MaxData),
        comment \in { << >>, <<" ", "c">> } }

InitValidate ==
    /\ sudoers = NoFiles
    /\ accounts = { }
    /\ authkeys = NoKeyFiles
    /\ \E blob \in Blobs :
          proc = [p \in Procs |-> IF p = Main THEN ValidateCaller(blob) ELSE IdleProc]
    /\ hist = [p \in Procs |-> IdleHist]

NextValidate ==
    \/ ValidateKey(Main)
    \/ Return(Main)

\* the key validator, called on every text of Blobs
SpecValidate == InitValidate /\ [][NextValidate]_vars

\* the usernames UserManager is called with
AccountNames == { <<"a">>, <<"a", "b">> }

\* a key file whose last line has no line end
Unterminated == [WithKeys EXCEPT !.content = Key1]

\* The host before the first call of UserManager: no drop-ins; one user f
\* whose account may exist, with or without ~/.ssh and a key file.
InitUsers ==
    /\ sudoers = NoFiles
    /\ \E f \in AccountNames :
          /\ accounts \in {{ }, {f}}
          /\ \E keys \in {NoKeys, SshDirOnly, WithKeys, Unterminated} :
                /\ keys.dir => f \in accounts
                /\ authkeys = [u \in Usernames |-> IF u = f THEN keys ELSE NoKeys]
    /\ proc = [p \in Procs |-> IdleProc]
    /\ hist = [p \in Procs |-> IdleHist]

\* UserManager's operations, one call at a time
NextUsers ==
    \/ \E u \in AccountNames : CallCreateUser(Main, u)
    \/ \E u \in AccountNames, k \in Keys : CallInstallKey(Main, u, k)
    \/ \E u \in AccountNames : CallRemoveSsh(Main, u)
    \/ CreateSteps(Main)
    \/ SetupSteps(Main)
    \/ InstallSteps(Main)
    \/ RemoveSshLookup(Main)
    \/ RemoveSshUnlink(Main)
    \/ Return(Main)

SpecUsers == InitUsers /\ [][NextUsers]_vars

\* A key that shares no text with Key1 and Key2 beyond the key type
Key3 == <<"s", "s", "h", "-", "r", "s", "a", " ", "B", "B", "B", "B">>
ConcKeys == {Key1, Key2, Key3}
ConcAccount == <<"a">>

\* The host before concurrent installs for one existing account: with or
\* without ~/.ssh, with or without a key file of complete lines
InitInstallConc ==
    /\ sudoers = NoFiles
    /\ accounts = {ConcAccount}
    /\ \E keys \in {NoKeys, SshDirOnly, WithKeys} :
          authkeys = [u \in Usernames |-> IF u = ConcAccount THEN keys ELSE NoKeys]
    /\ proc = [p \in Procs |-> IdleProc]
    /\ hist = [p \in Procs |-> IdleHist]

\* install_ssh_key in two processes, each called once; a step of either
\* process may come between any two steps of the other
NextInstallConc ==
    \E p \in Procs :
        \/ \E k \in ConcKeys : CallInstallKey(p, ConcAccount, k)
        \/ SetupSteps(p)
        \/ InstallSteps(p)

SpecInstallConc == InitInstallConc /\ [][NextInstallConc]_vars

(***************************************************************************)
(* Listing and verifying the sudoers directory.  Besides the files above,  *)
(* the directory may hold a subdirectory and a file whose bytes are not    *)
(* text in the locale's encoding; it may also be missing altogether.  A    *)
(* name that starts with "." has an empty first component: <<"", "a">> is  *)
(* ".a".                                                                   *)
(***************************************************************************)
Subdirectory == [kind |-> "dir", user |-> NoUser, mode |-> "0755", checked |-> FALSE]
Undecodable == [kind |-> "binary", user |-> NoUser, mode |-> "0440", checked |-> FALSE]

\* a sudoers directory that does not exist holds no name at all
NoDirectory == << >>

\* self.SUDOERS_DIR.exists()
DirExists(files) == files # NoDirectory

\* the names the directory is listed with: "a", "a.b", ".a" and "B"
ListNames == { <<"a">>, <<"a", "b">>, <<"", "a">>, <<"B">> }

\* sudoers_file.is_file()
is_file(file) == file.kind \notin {"absent", "dir"}

\* sudoers_file.name.startswith(".")
startswith_dot(name) == Head(name) = ""

\* the characters of a name, its components joined by "."
CompChars(c) == IF c = "" THEN << >> ELSE <<c>>

RECURSIVE Chars(_)
Chars(name) ==
    IF Len(name) = 1 THEN CompChars(Head(name))
    ELSE CompChars(Head(name)) \o <<".">> \o Chars(Tail(name))

\* ord(c)
CodePoint(c) ==
    CASE c = "." -> 46 [] c = "B" -> 66 [] c = "a" -> 97 [] c = "b" -> 98

\* Python's s < t on strings: by code point, a proper prefix first
RECURSIVE str_lt(_, _)
str_lt(s, t) ==
    IF t = << >> THEN FALSE
    ELSE IF s = << >> THEN TRUE
    ELSE IF Head(s) # Head(t) THEN CodePoint(Head(s)) < CodePoint(Head(t))
    ELSE str_lt(Tail(s), Tail(t))

\* sorted(names)
RECURSIVE sorted(_)
sorted(names) ==
    IF names = << >> THEN << >>
    ELSE LET i == CHOOSE k \in 1..Len(names) :
                     \A j \in 1..Len(names) :
                         j # k => ~str_lt(Chars(names[j]), Chars(names[k]))
             rest == [j \in 1..(Len(names) - 1) |->
                         IF j < i THEN names[j] ELSE names[j + 1]]
         IN  <<names[i]>> \o sorted(rest)

\* self.SUDOERS_DIR.iterdir(): the names in the directory, in the order the
\* file system gives them
iterdir(files) ==
    LET present == { n \in DOMAIN files : files[n].kind # "absent" }
    IN  { s \in [1..Cardinality(present) -> present] :
            \A i, j \in 1..Cardinality(present) : i # j => s[i] # s[j] }

\* list_sudo_users()
CallList(p) ==
    /\ proc[p].pc = "idle"
    /\ proc' = [proc EXCEPT ![p] =
          [IdleProc EXCEPT !.op = "list_sudo_users", !.pc = "l_exists"]]
    /\ hist' = [hist EXCEPT ![p] = CallHist]
    /\ UNCHANGED <<sudoers, accounts, authkeys>>

\* if not self.SUDOERS_DIR.exists(): return []
\* for file_path in self.SUDOERS_DIR.iterdir():
ListExists(p) ==
    /\ proc[p].pc = "l_exists"
    /\ IF DirExists(sudoers)
          THEN /\ \E order \in iterdir(sudoers) :
                     proc' = [proc EXCEPT ![p] =
                        [proc[p] EXCEPT !.todo = order, !.pc = "l_iter"]]
               /\ hist' = Log(p, "iterdir")
          ELSE /\ proc' = [proc EXCEPT ![p] = Finish(p, "returned")]
               /\ hist' = Log(p, "no_directory")
    /\ UNCHANGED <<sudoers, accounts, authkeys>>

\* if sudoers_file.is_file() and not sudoers_file.name.startswith("."):
\*     if self._is_addy_sudoers_file(sudoers_file):
\*         sudo_users.append(sudoers_file.name)
ListEntry(p) ==
    /\ proc[p].pc = "l_iter"
    /\ proc[p].todo # << >>
    /\ LET name == Head(proc[p].todo)
           next == [proc[p] EXCEPT !.todo = Tail(@)]
       IN  IF is_file(sudoers[name]) /\ ~startswith_dot(name)
              THEN \E readable \in BOOLEAN :
                     LET outcome == is_addy_sudoers_file(sudoers, name, readable) IN
                     /\ proc' = [proc EXCEPT ![p] =
                           CASE outcome = "True" ->
                                  [next EXCEPT !.sudo_users = Append(@, name)]
                             [] outcome = "False" -> next
                             [] OTHER -> Finish(p, outcome)]
                     /\ hist' = IF readable THEN Log(p, "read")
                                            ELSE LogFault(p, "read_failed")
              ELSE /\ proc' = [proc EXCEPT ![p] = next]
                   /\ hist' = Log(p, "skip")
    /\ UNCHANGED <<sudoers, accounts, authkeys>>

\* return sorted(sudo_users)
ListReturn(p) ==
    /\ proc[p].pc = "l_iter"
    /\ proc[p].todo = << >>
    /\ proc' = [proc EXCEPT ![p] =
          [Finish(p, "returned") EXCEPT !.sudo_users = sorted(@)]]
    /\ hist' = Log(p, "sorted")
    /\ UNCHANGED <<sudoers, accounts, authkeys>>

ListSteps(p) ==
    \/ ListExists(p)
    \/ ListEntry(p)
    \/ ListReturn(p)

\* verify_sudoers_integrity()
CallVerify(p) ==
    /\ proc[p].pc = "idle"
    /\ proc' = [proc EXCEPT ![p] =
          [IdleProc EXCEPT !.op = "verify_sudoers_integrity", !.pc = "y_exists"]]
    /\ hist' = [hist EXCEPT ![p] = CallHist]
    /\ UNCHANGED <<sudoers, accounts, authkeys>>

\* if not self.SUDOERS_DIR.exists():
\*     results["errors"].append("Sudoers directory does not exist")
\*     return results
VerifyExists(p) ==
    /\ proc[p].pc = "y_exists"
    /\ IF DirExists(sudoers)
          THEN /\ \E order \in iterdir(sudoers) :
                     proc' = [proc EXCEPT ![p] =
                        [proc[p] EXCEPT !.todo = order, !.pc = "y_iter"]]
               /\ hist' = Log(p, "iterdir")
          ELSE /\ proc' = [proc EXCEPT ![p] =
                     [Finish(p, "returned") EXCEPT
                         !.errors = Append(@, "Sudoers directory does not exist")]]
               /\ hist' = Log(p, "no_directory")
    /\ UNCHANGED <<sudoers, accounts, authkeys>>

\* except Exception as e:
\*     results["errors"].append(f"Failed to verify sudoers integrity: {e}")
VerifyExcept(p) ==
    [Finish(p, "returned") EXCEPT
        !.errors = Append(@, "Failed to verify sudoers integrity")]

\* if sudoers_file.is_file() and self._is_addy_sudoers_file(sudoers_file):
\*     if self._validate_sudoers_file(sudoers_file): valid_files.append(name)
\*     else: invalid_files.append(name)
\* _validate_sudoers_file lets through what subprocess.run raises other
\* than CalledProcessError and FileNotFoundError.
VerifyEntry(p) ==
    /\ proc[p].pc = "y_iter"
    /\ proc[p].todo # << >>
    /\ LET name == Head(proc[p].todo)
           next == [proc[p] EXCEPT !.todo = Tail(@)]
       IN  IF is_file(sudoers[name])
              THEN \E readable \in BOOLEAN :
                     LET outcome == is_addy_sudoers_file(sudoers, name, readable) IN
                     CASE outcome = "True" ->
                            \E verdict \in {"ok", "reject", "missing", "PermissionError"} :
                               /\ proc' = [proc EXCEPT ![p] =
                                     IF verdict = "PermissionError"
                                        THEN [VerifyExcept(p) EXCEPT !.verdict = verdict]
                                     ELSE IF validate_sudoers_file(verdict)
                                        THEN [next EXCEPT !.verdict = verdict,
                                                 !.verdicts = (name :> verdict) @@ @,
                                                 !.valid_files = Append(@, name)]
                                        ELSE [next EXCEPT !.verdict = verdict,
                                                 !.verdicts = (name :> verdict) @@ @,
                                                 !.invalid_files = Append(@, name)]]
                               /\ hist' = IF verdict = "PermissionError"
                                             THEN LogFault(p, "validate_failed")
                                             ELSE Log(p, "validate")
                       [] outcome = "False" ->
                            /\ proc' = [proc EXCEPT ![p] = next]
                            /\ hist' = IF readable THEN Log(p, "read")
                                                   ELSE LogFault(p, "read_failed")
                       [] OTHER ->
                            /\ proc' = [proc EXCEPT ![p] = VerifyExcept(p)]
                            /\ hist' = Log(p, "read")
              ELSE /\ proc' = [proc EXCEPT ![p] = next]
                   /\ hist' = Log(p, "skip")
    /\ UNCHANGED <<sudoers, accounts, authkeys>>

\* return results
VerifyReturn(p) ==
    /\ proc[p].pc = "y_iter"
    /\ proc[p].todo = << >>
    /\ proc' = [proc EXCEPT ![p] = Finish(p, "returned")]
    /\ hist' = Log(p, "return")
    /\ UNCHANGED <<sudoers, accounts, authkeys>>

VerifySteps(p) ==
    \/ VerifyExists(p)
    \/ VerifyEntry(p)
    \/ VerifyReturn(p)

\* The sudoers directory before a listing: missing, or holding under each
\* name nothing, the rule of that name, or something else.
InitList ==
    /\ \/ sudoers = NoDirectory
       \/ \E fa \in {NoFile, RuleFile(<<"a">>, "0440", TRUE), ForeignFile, Undecodable},
             fab \in {NoFile, RuleFile(<<"a", "b">>, "0440", TRUE),
                      RuleFile(<<"a">>, "0440", TRUE), Subdirectory},
             fh \in {NoFile, RuleFile(<<"", "a">>, "0440", TRUE), ForeignFile},
             fB \in {NoFile, RuleFile(<<"B">>, "0440", TRUE)} :
             sudoers = [n \in ListNames |->
                           CASE n = <<"a">> -> fa
                             [] n = <<"a", "b">> -> fab
                             [] n = <<"", "a">> -> fh
                             [] OTHER -> fB]
    /\ accounts = { }
    /\ authkeys = NoKeyFiles
    /\ proc = [p \in Procs |-> IdleProc]
    /\ hist = [p \in Procs |-> IdleHist]

NextList ==
    \/ CallList(Main)
    \/ CallVerify(Main)
    \/ ListSteps(Main)
    \/ VerifySteps(Main)
    \/ Return(Main)

SpecList == InitList /\ [][NextList]_vars

\* The package specifiers the commands are called with: a first word (a
\* package type, a word that is none, or nothing), a "/" or none, and a name
\* of at most MaxName characters or one of UsernameMax, UsernameMax + 1
\* characters.
MaxName == 3

NameChars == {"a", "1", "-", ".", "_", "@", "/"}

RECURSIVE Repeat(_, _)
Repeat(c, n) == IF n = 0 THEN << >> ELSE <<c>> \o Repeat(c, n - 1)

Packages ==
    { first \o sep \o name :
        first \in PackageTypes \cup { << >>, <<"x">>, <<"s", "u", "d", "o", "e", "r">> },
        sep \in { << >>, <<"/">> },
        name \in TextsUpTo(NameChars, MaxName)
                   \cup { Repeat("a", UsernameMax), Repeat("a", UsernameMax + 1),
                          <<"U+00E9">>, <<"a", " ">> } }

InitParse ==
    /\ sudoers = NoFiles
    /\ accounts = { }
    /\ authkeys = NoKeyFiles
    /\ \E command \in {"install", "remove"}, package \in Packages :
          proc = [p \in Procs |-> IF p = Main THEN CliCaller(command, package)
                                              ELSE IdleProc]
    /\ hist = [p \in Procs |-> IdleHist]

NextParse ==
    \/ CliParse(Main)
    \/ CliConstruct(Main)

\* the commands, called on every text of Packages
SpecParse == InitParse /\ [][NextParse]_vars

(***************************************************************************)
(* Properties.                                                             *)
(***************************************************************************)
Has(trace, ev) == \E i \in 1..Len(trace) : trace[i] = ev
Before(trace, ev1, ev2) ==
    \E i, j \in 1..Len(trace) : i < j /\ trace[i] = ev1 /\ trace[j] = ev2
Count(trace, ev) == Cardinality({ i \in 1..Len(trace) : trace[i] = ev })

InGrant(p) == proc[p].op = "grant" /\ proc[p].pc # "idle"
Done(p, op) == proc[p].op = op /\ proc[p].pc = "done"

\* C1: in a grant for u that found no drop-in, the file at the drop-in path
\* comes into existence only through the rename of the checked temp file:
\* whenever the path holds a file, the grant has renamed, and the file is the
\* complete rule of u and has passed the check (or the checker was missing).
C1_DropinOnlyByCheckedRename ==
    \A p \in Procs :
        LET D == SudoersFile(proc[p].user) IN
        (InGrant(p) /\ ~Exists(hist[p].pre, D) /\ Exists(sudoers, D))
            => /\ Has(hist[p].trace, "rename")
               /\ sudoers[D].kind = "rule"
               /\ sudoers[D].user = proc[p].user
               /\ sudoers[D].checked

\* C2: a grant whose temp file the checker rejected ends with the
\* invalid-sudoers error, its temp file deleted, no file at the drop-in path,
\* and the drop-in path never written by it.
C2_RejectedGrantLeavesNoDropin ==
    \A p \in Procs :
        LET D == SudoersFile(proc[p].user)
            T == TempFile(proc[p].user) IN
        (Done(p, "grant") /\ proc[p].verdict = "reject")
            => /\ proc[p].result = "InvalidSudoers"
               /\ ~Exists(sudoers, T)
               /\ ~Exists(sudoers, D)
               /\ D \notin hist[p].written

\* C3: while the only invocations are grants for one username u, a reader of
\* the drop-in path of u never sees a half-written file: if the path holds a
\* file, it is the complete rule of u.  (Stated for the usernames whose temp
\* file is not the drop-in path itself, so that what it says is about the
\* concurrent invocations alone.)
C3_ReaderNeverSeesHalfWritten ==
    \A u \in Usernames :
        LET D == SudoersFile(u) IN
        ( /\ TempFile(u) # D
          /\ \A p \in Procs : proc[p].op = "none" \/ (proc[p].op = "grant" /\ proc[p].user = u)
          /\ Exists(sudoers, D) )
            => sudoers[D].kind = "rule" /\ sudoers[D].user = u

\* C4: revoke never deletes a drop-in that is not tool-managed: a drop-in
\* with foreign content is still there, unchanged, when revoke has returned.
C4_RevokeKeepsForeignDropin ==
    \A p \in Procs :
        LET D == SudoersFile(proc[p].user) IN
        ( /\ Done(p, "revoke")
          /\ Exists(hist[p].pre, D)
          /\ ~HoldsOwnRule(hist[p].pre, D) )
            => sudoers[D] = hist[p].pre[D]

\* C5: grant is idempotent: a call grant(u) made when the drop-in of u
\* exists returns success at its exists check and makes no system call that
\* writes (no open, chmod, validation or rename): the sudoers directory is as
\* it was at the call.
C5_GrantIdempotent ==
    \A p \in Procs :
        LET D == SudoersFile(proc[p].user) IN
        ( /\ InGrant(p)
          /\ ~proc[p].bound /\ proc[p].cu = "unset"
          /\ Exists(hist[p].pre, D) )
            => /\ proc[p].pc \in {"g_exists", "done"}
               /\ proc[p].pc = "done" => proc[p].result = "ok"
               /\ hist[p].trace = << >>
               /\ hist[p].written = { }
               /\ sudoers = hist[p].pre

\* C5, its case: a plain grant(u) has returned success on finding the
\* tool-written drop-in of u already in place.
C5_Witness ==
    \E p \in Procs :
        /\ Done(p, "grant")
        /\ ~proc[p].bound /\ proc[p].cu = "unset"
        /\ proc[p].result = "ok"
        /\ Exists(hist[p].pre, SudoersFile(proc[p].user))
        /\ HoldsOwnRule(sudoers, SudoersFile(proc[p].user))

\* C6: grant(u) without create_user=true, for a username with no account and
\* no drop-in, fails with the account-not-found error; it writes nothing and
\* no drop-in exists afterwards.
C6_GrantMissingAccountFails ==
    \A p \in Procs :
        LET D == SudoersFile(proc[p].user) IN
        ( /\ Done(p, "grant")
          /\ proc[p].cu # "true"
          /\ ~user_exists(proc[p].user)
          /\ ~Exists(hist[p].pre, D) )
            => /\ proc[p].result = "AccountNotFound"
               /\ hist[p].written = { }
               /\ ~Exists(sudoers, D)

\* C7: `install sudo/X` with no drop-in for X, when no system call fails:
\* the command succeeds, account X exists and the drop-in of X holds exactly
\* the rule of X.
C7_InstallSudoGrants ==
    \A p \in Procs :
        LET D == SudoersFile(proc[p].user) IN
        ( /\ Done(p, "install")
          /\ proc[p].kind = "sudo"
          /\ ~Exists(hist[p].pre, D)
          /\ ~hist[p].fault )
            => /\ proc[p].result = "ok"
               /\ user_exists(proc[p].user)
               /\ HoldsOwnRule(sudoers, D)

\* C8: revoke(u, delete_user=true) on an existing drop-in, with a
\* user-management collaborator bound, calls SSH de-provisioning for u once,
\* and then account deletion, whatever remove_ssh was passed.
C8_RevokeDeleteUserRemovesSsh ==
    \A p \in Procs :
        ( /\ Done(p, "revoke")
          /\ proc[p].bound
          /\ proc[p].du = "true"
          /\ Exists(hist[p].pre, SudoersFile(proc[p].user)) )
            => /\ Count(hist[p].trace, "remove_ssh_access") = 1
               /\ Before(hist[p].trace, "remove_ssh_access", "delete_user")

\* C9: when the deletion of an existing account has failed (delete_user, or
\* `remove ... --delete-account`, has ended in an error), SSH de-provisioning
\* of that account has been attempted.
C9_FailedDeletionStillRemovesSsh ==
    \A p \in Procs :
        ( /\ Done(p, "delete_user") \/ (Done(p, "remove") /\ proc[p].da)
          /\ user_exists(proc[p].user)
          /\ proc[p].result # "ok" )
            => Has(hist[p].trace, "remove_ssh_access")

\* C10: `remove sudo/X --delete-account` on an existing account, when no
\* system call fails: the command succeeds and afterwards X has no drop-in,
\* no authorized_keys file and no account.
C10_RemoveSudoDeleteAccountClearsAll ==
    \A p \in Procs :
        ( /\ Done(p, "remove")
          /\ proc[p].kind = "sudo"
          /\ proc[p].da
          /\ ~hist[p].fault )
            => /\ proc[p].result = "ok"
               /\ ~Exists(sudoers, SudoersFile(proc[p].user))
               /\ ~authkeys[proc[p].user].exists
               /\ ~user_exists(proc[p].user)

PlainRevoke(p) ==
    /\ proc[p].op = "revoke" /\ proc[p].pc # "idle"
    /\ ~proc[p].bound /\ proc[p].rs = "unset" /\ proc[p].du = "unset"

\* C11: revoke(u) with default flags changes nothing but the drop-in of u.
\* With no drop-in it makes no system call and succeeds; with one, it either
\* deletes it and succeeds, or fails to and ends with the sudo-revoke error,
\* the file left as it was.  At no point of the call is SSH de-provisioning
\* or account deletion invoked, and the accounts, the key files and every
\* other file of the sudoers directory stay as they were at the call.
C11_PlainRevokeTouchesOnlyDropin ==
    \A p \in Procs :
        LET D == SudoersFile(proc[p].user) IN
        PlainRevoke(p) =>
            /\ accounts = hist[p].acc
            /\ authkeys = hist[p].keys
            /\ \A path \in Paths \ {D} : sudoers[path] = hist[p].pre[path]
            /\ ~Has(hist[p].trace, "remove_ssh_access")
            /\ ~Has(hist[p].trace, "unlink_keys")
            /\ ~Has(hist[p].trace, "delete_user")
            /\ proc[p].pc = "done" =>
                  IF ~Exists(hist[p].pre, D)
                     THEN /\ proc[p].result = "ok"
                          /\ hist[p].trace = << >>
                          /\ sudoers = hist[p].pre
                     ELSE \/ /\ proc[p].result = "ok"
                             /\ ~Exists(sudoers, D)
                             /\ hist[p].trace = <<"unlink">>
                          \/ /\ proc[p].result = "SudoRevokeError"
                             /\ sudoers = hist[p].pre
                             /\ hist[p].fault

\* C11, its cases: a plain revoke has deleted the drop-in of an account that
\* holds keys; a plain revoke has found no drop-in and succeeded.
C11_Witness ==
    /\ \E p \in Procs :
          /\ PlainRevoke(p) /\ proc[p].pc = "done" /\ proc[p].result = "ok"
          /\ Exists(hist[p].pre, SudoersFile(proc[p].user))
          /\ ~Exists(sudoers, SudoersFile(proc[p].user))
          /\ user_exists(proc[p].user)
          /\ authkeys[proc[p].user].exists

\* C12: revoke(u, remove_ssh=true, delete_user=true) on a reconciler built
\* without a user-management collaborator, when no system call fails:
\* succeeds, the drop-in of u is gone, and the accounts and key files are as
\* they were at the call.
C12_UnboundRevokeWithFlagsSucceeds ==
    \A p \in Procs :
        ( /\ Done(p, "revoke")
          /\ ~proc[p].bound
          /\ proc[p].rs = "true" /\ proc[p].du = "true"
          /\ ~hist[p].fault )
            => /\ proc[p].result = "ok"
               /\ ~Exists(sudoers, SudoersFile(proc[p].user))
               /\ accounts = hist[p].acc
               /\ authkeys = hist[p].keys

Running(p, op) == proc[p].op = op /\ proc[p].pc # "idle"

KeyWrites == {"open_keys", "write_keys", "chmod_keys", "chown_keys"}

\* C13: key install is idempotent.  An install(u, k) that has succeeded
\* leaves a key file that holds the trimmed k; and an install(u, k) called
\* when the key file holds the trimmed k never opens the file for writing,
\* nor writes, chmods or chowns it: the file is as it was at the call, byte
\* for byte, and the call succeeds unless reading the file failed.
C13_InstallIdempotent ==
    \A p \in Procs :
        LET u == proc[p].user
            k == strip(proc[p].key) IN
        /\ (Done(p, "install_ssh_key") /\ proc[p].result = "ok")
              => authkeys[u].exists /\ IsSubstring(k, authkeys[u].content)
        /\ ( /\ Running(p, "install_ssh_key")
             /\ hist[p].keys[u].exists
             /\ IsSubstring(k, hist[p].keys[u].content) )
              => /\ \A ev \in KeyWrites : ~Has(hist[p].trace, ev)
                 /\ authkeys[u] = hist[p].keys[u]
                 /\ proc[p].pc = "done" => proc[p].result = "ok" \/ hist[p].fault

\* C13, its case: a second install of a key, given with blanks around it,
\* has returned success on a key file that an earlier install wrote the
\* trimmed key to.
C13_Witness ==
    \E p \in Procs :
        /\ Done(p, "install_ssh_key") /\ proc[p].result = "ok"
        /\ proc[p].key = Key1Padded
        /\ hist[p].keys[proc[p].user].owner = "account"
        /\ hist[p].keys[proc[p].user].content = Key1 \o <<"\n">>
        /\ authkeys[proc[p].user] = hist[p].keys[proc[p].user]

\* C14: install(u, k) for a username with no account fails at its first
\* check with the account-not-found error ("User u does not exist") and
\* changes nothing: no ~/.ssh and no key file is made, no system call made.
C14_InstallNoAccountFails ==
    \A p \in Procs :
        (Running(p, "install_ssh_key") /\ proc[p].user \notin hist[p].acc)
            => /\ proc[p].pc \in {"i_exists", "done"}
               /\ proc[p].pc = "done" =>
                     proc[p].result = "AccountNotFound" /\ proc[p].msg = "does not exist"
               /\ hist[p].trace = << >>
               /\ authkeys = hist[p].keys
               /\ accounts = hist[p].acc
               /\ sudoers = hist[p].pre

\* C14, its case: an install for a username without account has failed
\* while another account exists and holds keys.
C14_Witness ==
    \E p \in Procs :
        /\ Done(p, "install_ssh_key")
        /\ ~user_exists(proc[p].user)
        /\ proc[p].result = "AccountNotFound"
        /\ \E v \in accounts : authkeys[v].exists

\* C17: SSH de-provisioning of u.  With no account u, or with an account
\* but no key file, it returns success and changes nothing.  Otherwise it
\* deletes the whole key file -- afterwards u has no key file -- while the
\* account and ~/.ssh remain; or, the deletion failing, it ends with the
\* SSH-removal error and nothing changed.  Nobody else's key file and no
\* account is touched in any case.
C17_RemoveAllDeletesKeyFile ==
    \A p \in Procs :
        LET u == proc[p].user
            before == hist[p].keys[u] IN
        Running(p, "remove_ssh_access") =>
            /\ accounts = hist[p].acc
            /\ sudoers = hist[p].pre
            /\ \A v \in Usernames \ {u} : authkeys[v] = hist[p].keys[v]
            /\ authkeys[u].dir = before.dir
            /\ proc[p].pc = "done" =>
                  IF u \notin hist[p].acc \/ ~before.exists
                     THEN /\ proc[p].result = "ok"
                          /\ authkeys = hist[p].keys
                          /\ ~Has(hist[p].trace, "unlink_keys")
                     ELSE \/ /\ proc[p].result = "ok"
                             /\ ~authkeys[u].exists
                             /\ authkeys[u].content = NoText
                             /\ user_exists(u)
                          \/ /\ proc[p].result = "SshRemoveError"
                             /\ authkeys = hist[p].keys
                             /\ hist[p].fault

\* C17, its case: de-provisioning has deleted a key file that held two keys;
\* the account and its ~/.ssh are still there.
C17_Witness ==
    \E p \in Procs :
        /\ Done(p, "remove_ssh_access") /\ proc[p].result = "ok"
        /\ hist[p].keys[proc[p].user].content = Key1 \o <<"\n">> \o Key2 \o <<"\n">>
        /\ ~authkeys[proc[p].user].exists
        /\ authkeys[proc[p].user].dir
        /\ user_exists(proc[p].user)

\* C18: create(u) on an existing account returns at its first check: the
\* OS facility is not run and nothing changes.  On an absent account, when
\* the OS facility fails, create ends with the account-creation error, which
\* carries the diagnostic of the failure, and account u does not exist.
C18_CreateNoopOrFailsClean ==
    \A p \in Procs :
        LET u == proc[p].user IN
        /\ (Running(p, "create_user") /\ u \in hist[p].acc)
              => /\ proc[p].pc \in {"c_exists", "done"}
                 /\ proc[p].pc = "done" => proc[p].result = "ok"
                 /\ hist[p].trace = << >>
                 /\ accounts = hist[p].acc
                 /\ authkeys = hist[p].keys
                 /\ sudoers = hist[p].pre
        /\ (Done(p, "create_user") /\ Has(hist[p].trace, "useradd_failed"))
              => /\ proc[p].result = "AccountCreationError"
                 /\ proc[p].msg \in {"e.stderr", "str(e)"}
                 /\ ~user_exists(u)
                 /\ accounts = hist[p].acc
                 /\ authkeys = hist[p].keys
                 /\ hist[p].trace = <<"useradd_failed">>

\* C18, its case: useradd has failed for an absent account and create has
\* raised, carrying useradd's stderr.
C18_Witness ==
    \E p \in Procs :
        /\ Done(p, "create_user")
        /\ proc[p].user \notin hist[p].acc
        /\ proc[p].result = "AccountCreationError"
        /\ proc[p].msg = "e.stderr"
        /\ ~user_exists(proc[p].user)

Last(trace) == trace[Len(trace)]

\* C19: when useradd has succeeded and provisioning ~/.ssh then fails,
\* create(u) runs the account removal before it raises; what it raises is
\* the directory-provisioning error, carrying the provisioning failure,
\* whether the removal worked or not; and when the removal worked, account u
\* does not exist after create has returned.
C19_CreateRollsBackOnSshFailure ==
    \A p \in Procs :
        LET u == proc[p].user
            t == hist[p].trace IN
        ( /\ Done(p, "create_user")
          /\ Has(t, "useradd")
          /\ Has(t, "mkdir_failed") \/ Has(t, "chown_dir_failed") )
            => /\ Last(t) \in {"userdel", "userdel_failed"}
               /\ Count(t, "userdel") + Count(t, "userdel_failed") = 1
               /\ proc[p].result = "SshSetupError"
               /\ proc[p].msg = IF Has(t, "mkdir_failed") THEN "mkdir: e" ELSE "chown: e"
               /\ Last(t) = "userdel" => ~user_exists(u)
               /\ accounts \ {u} = hist[p].acc \ {u}

\* C19, its case: ~/.ssh was made but its chown failed, the removal of the
\* new account failed too, and create has raised the provisioning error.
C19_Witness ==
    \E p \in Procs :
        /\ Done(p, "create_user")
        /\ hist[p].trace = <<"useradd", "mkdir", "chown_dir_failed", "userdel_failed">>
        /\ proc[p].result = "SshSetupError"
        /\ user_exists(proc[p].user)

\* C15: when install(u, k) has written, the key file holds exactly what it
\* held at the call, followed by the trimmed key and one line end; and the
\* file has exactly one line more than it had.
C15_InstallAppendsOneLine ==
    \A p \in Procs :
        LET u == proc[p].user
            before == hist[p].keys[u].content IN
        (Running(p, "install_ssh_key") /\ Has(hist[p].trace, "write_keys"))
            => /\ authkeys[u].content = before \o strip(proc[p].key) \o <<"\n">>
               /\ Len(Lines(authkeys[u].content)) = Len(Lines(before)) + 1

\* C16: every line of every key file has passed the key validator.
C16_StoredLinesAreValid ==
    \A u \in Usernames :
        authkeys[u].exists =>
            \A i \in 1..Len(Lines(authkeys[u].content)) :
                validate_ssh_public_key(Lines(authkeys[u].content)[i])

\* standard base64: characters of the alphabet, in groups of four, the last
\* group ending in at most two "="
IsStandardBase64(tok) ==
    \E npad \in 0..2 :
        /\ Len(tok) >= 4 /\ Len(tok) % 4 = 0
        /\ \A i \in 1..(Len(tok) - npad) : tok[i] \in B64Alphabet
        /\ \A i \in (Len(tok) - npad + 1)..Len(tok) : tok[i] = "="

\* C20: the validator always returns, True or False, and changes nothing;
\* it returns True exactly when the text has at least two
\* whitespace-separated tokens, the first is one of the six key types and
\* the second is valid standard base64.
C20_ValidatorAcceptsExactlyWellFormed ==
    \A p \in Procs :
        Done(p, "validate_ssh_public_key") =>
            LET tokens == split(proc[p].key) IN
            /\ proc[p].result \in {"True", "False"}
            /\ sudoers = hist[p].pre /\ accounts = hist[p].acc /\ authkeys = hist[p].keys
            /\ proc[p].result = "True"
                  <=> /\ Len(tokens) >= 2
                      /\ tokens[1] \in valid_types
                      /\ IsStandardBase64(tokens[2])

Range(seq) == { seq[i] : i \in 1..Len(seq) }

\* the names list_sudo_users is to return: the regular, non-hidden files
\* that hold the rule of their own name
ManagedNames(files) ==
    IF DirExists(files)
       THEN { n \in DOMAIN files :
                is_file(files[n]) /\ ~startswith_dot(n) /\ HoldsOwnRule(files, n) }
       ELSE { }

\* C21: list_sudo_users returns, in sorted order and without repetition,
\* names of regular non-hidden files holding the rule of their own name, and
\* all of them unless a read failed; any other file, an unreadable file and
\* a missing directory contribute nothing; the listing returns normally and
\* leaves the directory as it found it.
C21_ListReturnsManagedNames ==
    \A p \in Procs :
        Done(p, "list_sudo_users") =>
            /\ proc[p].result = "returned"
            /\ sudoers = hist[p].pre
            /\ Range(proc[p].sudo_users) \subseteq ManagedNames(sudoers)
            /\ ~hist[p].fault => Range(proc[p].sudo_users) = ManagedNames(sudoers)
            /\ \A i, j \in 1..Len(proc[p].sudo_users) :
                  i < j => str_lt(Chars(proc[p].sudo_users[i]), Chars(proc[p].sudo_users[j]))


\* the tool-managed regular files of the directory, hidden ones included
ManagedFiles(files) ==
    IF DirExists(files)
       THEN { n \in DOMAIN files : is_file(files[n]) /\ HoldsOwnRule(files, n) }
       ELSE { }

\* C22: when verify_sudoers_integrity returns and no system call of it
\* failed, every tool-managed regular file of the directory is in exactly
\* one of valid_files and invalid_files, in valid_files iff the syntax check
\* passed it, no other file is in either list, and a missing directory gives
\* an error entry.
C22_VerifyPartitionsManagedFiles ==
    \A p \in Procs :
        Done(p, "verify_sudoers_integrity") =>
            LET valid == Range(proc[p].valid_files)
                invalid == Range(proc[p].invalid_files)
            IN  /\ valid \cap invalid = { }
                /\ (valid \cup invalid) \subseteq ManagedFiles(sudoers)
                /\ ~hist[p].fault => ManagedFiles(sudoers) \subseteq (valid \cup invalid)
                /\ \A n \in valid : validate_sudoers_file(proc[p].verdicts[n])
                /\ \A n \in invalid : ~validate_sudoers_file(proc[p].verdicts[n])
                /\ Len(proc[p].valid_files) + Len(proc[p].invalid_files)
                      = Cardinality(valid \cup invalid)
                /\ ~DirExists(sudoers) => proc[p].errors # << >>

\* the host is as the command found it
HostUntouched(p) ==
    /\ sudoers = hist[p].pre
    /\ accounts = hist[p].acc
    /\ authkeys = hist[p].keys

\* the keyword value a flag is passed as
Kw(flag) == IF flag THEN "true" ELSE "false"

\* C23: a finished `install user/X` has run repository sync first (unless a
\* system call failed), and then, as far as it got, fetch of the key before
\* account creation before key installation; when it failed before account
\* creation, no account was created and no authorized_keys file written.
C23_InstallUserStepsInOrder ==
    \A p \in Procs :
        (Done(p, "install") /\ proc[p].kind = "user") =>
            LET t == hist[p].trace IN
            /\ ~hist[p].fault => t # << >> /\ Head(t) = "sync"
            /\ Has(t, "create_user") => Before(t, "get_public_key", "create_user")
            /\ Has(t, "install_ssh_key") => Before(t, "create_user", "install_ssh_key")
            /\ ~Has(t, "create_user") => accounts = hist[p].acc /\ authkeys = hist[p].keys

\* C24: `install user/X` on a host without account X, when no system call
\* fails: the command succeeds, account X exists, and X's authorized_keys
\* file holds exactly one line and has mode 0600.
C24_InstallUserCreatesAccountAndKey ==
    \A p \in Procs :
        ( /\ Done(p, "install")
          /\ proc[p].kind = "user"
          /\ proc[p].user \notin hist[p].acc
          /\ ~hist[p].fault )
            => /\ proc[p].result = "ok"
               /\ user_exists(proc[p].user)
               /\ authkeys[proc[p].user].exists
               /\ Len(Lines(authkeys[proc[p].user].content)) = 1
               /\ authkeys[proc[p].user].mode = "0600"

\* C25: a finished `remove sudo/X` has called revoke_sudo for X with
\* remove_ssh = (remove-user or delete-account) and delete_user =
\* delete-account; with neither flag, SSH access and account are untouched.
C25_RemoveSudoPassesFlags ==
    \A p \in Procs :
        (Done(p, "remove") /\ proc[p].kind = "sudo" /\ ~hist[p].fault) =>
            /\ Has(hist[p].trace, "revoke_sudo")
            /\ proc[p].rs = Kw(proc[p].ru \/ proc[p].da)
            /\ proc[p].du = Kw(proc[p].da)
            /\ (~proc[p].ru /\ ~proc[p].da) =>
                  accounts = hist[p].acc /\ authkeys = hist[p].keys

\* C26: `remove user/X --remove-user`, with or without --delete-account,
\* is rejected as invalid input: the one thing the command reports is the
\* flag error ("--remove-user can only be used with sudo packages"); it ends
\* with a non-zero exit, has made no mutating call, and leaves
\* authorized_keys files, accounts and the sudoers directory as they were.
C26_RemoveUserFlagRejected ==
    \A p \in Procs :
        (Done(p, "remove") /\ proc[p].kind = "user" /\ proc[p].ru) =>
            /\ hist[p].trace = <<"InvalidFlag">>
            /\ proc[p].result = "exit1"
            /\ HostUntouched(p)
            /\ ~Has(hist[p].trace, "remove_ssh_access")
            /\ ~Has(hist[p].trace, "delete_user")

\* C27: a finished `remove user/X` (without --remove-user), when no system
\* call failed, has de-provisioned SSH for X; with --delete-account the
\* account deletion followed the de-provisioning; without it no deletion was
\* attempted and the accounts are as before.
C27_RemoveUserDeprovisionsThenDeletes ==
    \A p \in Procs :
        (Done(p, "remove") /\ proc[p].kind = "user" /\ ~proc[p].ru /\ ~hist[p].fault) =>
            LET t == hist[p].trace IN
            /\ Has(t, "remove_ssh_access")
            /\ proc[p].da => Before(t, "remove_ssh_access", "delete_user")
            /\ ~proc[p].da => ~Has(t, "delete_user") /\ accounts = hist[p].acc

\* C28: an install command run again after it failed, no system call
\* failing in the second run, ends as one successful run does: the command
\* succeeds, the account exists, `install sudo/X` leaves the drop-in of X
\* holding the rule of X, `install user/X` leaves a key file of mode 0600.
C28_RetryConverges ==
    \A p \in Procs :
        (Done(p, "install") /\ proc[p].retry /\ ~hist[p].fault) =>
            /\ proc[p].result = "ok"
            /\ user_exists(proc[p].user)
            /\ proc[p].kind = "sudo" =>
                  HoldsOwnRule(sudoers, SudoersFile(proc[p].user))
            /\ proc[p].kind = "user" =>
                  /\ authkeys[proc[p].user].exists
                  /\ authkeys[proc[p].user].mode = "0600"

\* what a command reports when a step of it fails
Failures == {"TypeError", "RuntimeError", "ValueError"}

FailFast(p) ==
    LET t == hist[p].trace IN
    (proc[p].pc = "done" /\ proc[p].op \in {"install", "remove"} /\ proc[p].result # "ok") =>
        /\ proc[p].result = "exit1"
        /\ Cardinality({ i \in 1..Len(t) : t[i] \in Failures }) = 1
        /\ Last(t) \in Failures
        /\ \A i, j \in 1..Len(t) : i < j => t[i] # t[j]
        /\ HostUntouched(p)

\* C29: an install or remove command that has started ends; when it ends in
\* failure the exit is non-zero, exactly one failure was reported and it is
\* the last thing the command did, no step ran twice, and nothing was
\* changed by the step that failed or after it.
C29_CommandsFailFast ==
    /\ [](\A p \in Procs : FailFast(p))
    /\ \A p \in Procs : (proc[p].pc = "cli_construct") ~> (proc[p].pc = "done")

\* a remove command for an account that exists has ended in failure
C29_Witness ==
    \E p \in Procs :
        /\ Done(p, "remove") /\ proc[p].result = "exit1"
        /\ proc[p].user \in hist[p].acc

\* C30: a package specifier the command has accepted is kind/username with
\* kind user or sudo and a username that validate_username accepts; a
\* specifier the command has not accepted has ended it with a non-zero exit
\* and the host untouched.
C30_AcceptedSpecifiersAreValid ==
    \A p \in Procs :
        proc[p].pc \in {"cli_construct", "done"} /\ proc[p].package # NoText =>
            LET parsed == parse_package(proc[p].package) IN
            /\ parsed.ok =>
                  /\ parsed.package_type \in PackageTypes
                  /\ proc[p].package = parsed.package_type \o <<"/">> \o parsed.username
                  /\ proc[p].user = parsed.username
                  /\ validate_username(proc[p].user)
            /\ ~parsed.ok =>
                  /\ Done(p, proc[p].op) /\ proc[p].result = "exit1"
                  /\ HostUntouched(p)

\* the content of a file: what it holds, not its permission bits
Content(file) == [kind |-> file.kind, user |-> file.user]

\* a call of `op` for username u is in progress
InProgress(op, u) ==
    \E p \in Procs : proc[p].op = op /\ proc[p].user = u /\ proc[p].pc # "idle"

\* C31: a drop-in that holds the rule of u, no grant or revoke of u being in
\* progress, is still there with the same content after any step of any
\* other operation.
C31_GrantUndoneOnlyByRevoke ==
    [][\A u \in Usernames :
          ( /\ HoldsOwnRule(sudoers, SudoersFile(u))
            /\ ~InProgress("revoke", u)
            /\ ~InProgress("grant", u) )
              => Content(sudoers'[SudoersFile(u)]) = Content(sudoers[SudoersFile(u)])]_vars

\* an OS-level error ended the grant after it had opened its temp file
FailedAfterOpen(p) ==
    /\ Done(p, "grant")
    /\ Has(hist[p].trace, "open")
    /\ \E ev \in {"write_failed", "chmod_failed", "validate_failed", "rename_failed"} :
          Has(hist[p].trace, ev)

\* C32: a grant for u that an OS-level error ended while it wrote, chmodded,
\* validated or renamed its temp file has raised the sudo-grant error; unless
\* the cleanup unlink failed, the temp file it opened is gone; the drop-in
\* path holds no file.
C32_FailedGrantRemovesTempFile ==
    \A p \in Procs :
        FailedAfterOpen(p) =>
            /\ proc[p].result = "SudoGrantError"
            /\ ~Has(hist[p].trace, "cleanup_failed") =>
                  ~Exists(sudoers, TempFile(proc[p].user))
            /\ ~Exists(sudoers, SudoersFile(proc[p].user))

\* C33: a grant whose syntax check found no checker on the host, no system
\* call failing, ends as one whose check passed: the temp file was renamed,
\* the call succeeded and the drop-in holds a file; a grant ends with the
\* invalid-configuration error only when the checker rejected the file, and
\* then nothing was renamed.
C33_MissingCheckerCommits ==
    \A p \in Procs :
        Done(p, "grant") =>
            /\ (proc[p].verdict \in {"missing", "ok"} /\ ~hist[p].fault) =>
                  /\ proc[p].result = "ok"
                  /\ Has(hist[p].trace, "rename")
                  /\ Exists(sudoers, SudoersFile(proc[p].user))
            /\ proc[p].result = "InvalidSudoers" =>
                  /\ proc[p].verdict = "reject"
                  /\ ~Has(hist[p].trace, "rename")
            /\ proc[p].verdict = "reject" => proc[p].result # "ok"

\* a grant that found no drop-in and no checker has succeeded
C33_Witness ==
    \E p \in Procs :
        /\ Done(p, "grant") /\ proc[p].verdict = "missing" /\ proc[p].result = "ok"
        /\ ~Exists(hist[p].pre, SudoersFile(proc[p].user))
        /\ HoldsOwnRule(sudoers, SudoersFile(proc[p].user))

\* C34: after an install(u, k) that has succeeded, the key file of u has
\* mode 0600 and belongs to the account, whether or not the call wrote.
C34_InstalledKeyFileIsPrivate ==
    \A p \in Procs :
        (Done(p, "install_ssh_key") /\ proc[p].result = "ok") =>
            /\ authkeys[proc[p].user].exists
            /\ authkeys[proc[p].user].mode = "0600"
            /\ authkeys[proc[p].user].owner = "account"

\* the text is made of complete lines
Terminated(t) == t = << >> \/ Last(t) = "\n"

\* C35: after an install(u, k) of a one-line key that has succeeded on a key
\* file made of complete lines, one line of the file is the trimmed k; and
\* when the call did not write, one line of the file was the trimmed k at
\* the call already.
C35_StoreKeyedByExactLine ==
    \A p \in Procs :
        LET u == proc[p].user
            k == strip(proc[p].key) IN
        ( /\ Done(p, "install_ssh_key") /\ proc[p].result = "ok"
          /\ ~IsSubstring(<<"\n">>, k)
          /\ Terminated(hist[p].keys[u].content) )
            => /\ k \in Range(Lines(authkeys[u].content))
               /\ ~Has(hist[p].trace, "write_keys")
                     => k \in Range(Lines(hist[p].keys[u].content))

\* C36: while a grant for u runs and after it has ended, successful or
\* failed, the drop-in path of every other username holds what it held when
\* the grant was called: the same file with the same content, or no file.
C36_GrantLeavesOtherDropins ==
    \A p \in Procs :
        Running(p, "grant") =>
            \A v \in Usernames \ {proc[p].user} :
                Content(sudoers[SudoersFile(v)]) = Content(hist[p].pre[SudoersFile(v)])

\* C37: when grants for distinct usernames run concurrently, the rename by
\* which a grant for u commits leaves at the drop-in path of u a file that
\* holds the rule of u.
C37_ConcurrentGrantCommitsOwnRule ==
    [][\A p \in Procs :
          ( /\ proc[p].op = "grant"
            /\ \A q \in Procs \ {p} : proc[q].user # proc[p].user
            /\ proc[p].pc = "g_rename"
            /\ proc'[p].pc = "done" /\ proc'[p].result = "ok" )
              => HoldsOwnRule(sudoers', SudoersFile(proc[p].user))]_vars

\* C38: when a grant for u has returned success, the file at the drop-in
\* path of u holds exactly the rule of u, whatever the path held at the call.
C38_SuccessfulGrantMeansManaged ==
    \A p \in Procs :
        (Done(p, "grant") /\ proc[p].result = "ok") =>
            HoldsOwnRule(sudoers, SudoersFile(proc[p].user))

\* C40: when two installs for the same account with different keys have
\* both returned successfully, whatever the interleaving of their steps, the
\* key file holds the trimmed text of each key as a line of its own.
C40_ConcurrentInstallsKeepBothKeys ==
    \A p, q \in Procs :
        ( /\ p # q
          /\ Done(p, "install_ssh_key") /\ proc[p].result = "ok"
          /\ Done(q, "install_ssh_key") /\ proc[q].result = "ok"
          /\ proc[p].user = proc[q].user
          /\ proc[p].key # proc[q].key )
            => strip(proc[p].key) \in Range(Lines(authkeys[proc[p].user].content))

====
